---- MODULE Spec2Model ----
(***************************************************************************)
(* Model of the NDMO schema compliance engine (mazybi/dq).                 *)
(*                                                                         *)
(*   ndmo_standards.py          NDMOStandardsManager   (catalog, scorer)   *)
(*   schema_problem_analyzer.py SchemaProblemAnalyzer  (problem detector)  *)
(*                              SchemaNDMOComplianceProcessor (transformer)*)
(*                                                                         *)
(* Numbers.  Thresholds and weights are fractions with at most two         *)
(* decimals in the source; they are kept as integers in hundredths         *)
(* (0.95 is 95).  A score or a quotient is kept exact, as a record         *)
(* [num, den] in lowest terms with den > 0 whose value is num/den          *)
(* hundredths (1.0 is 100/1), and compared by cross multiplication.        *)
(*                                                                         *)
(* Strings.  Column names are sequences of one-character strings so that   *)
(* str.lower() and the substring tests of the source can be computed.      *)
(***************************************************************************)
EXTENDS Integers, Sequences, FiniteSets, TLC

VARIABLES
    results,           \* the mapping passed to calculate_compliance_score
    compliance,        \* the dict it returned
    scorer_pc,         \* "idle" until the call, then "returned"
    heap,              \* the schema model dicts, by reference
    session_schema_analysis,   \* session_state.schema_analysis, a result dict
    session_original_schema,   \* session_state.original_schema
    session_compliant_schema,  \* session_state.compliant_schema
    problem_analysis,  \* SchemaProblemAnalyzer.problem_analysis
    runs,              \* number of transformer runs so far
    before,            \* history: the schema model the last run was given
    analyzed,          \* history: the schema model the last analysis was given
    data_file,         \* the data table and the schema analysis of a data file
    improvement_log,   \* SmartDataProcessor.improvement_log
    processing_results,\* SmartDataProcessor.processing_results
    improved_data,     \* the table after the improvement pass of the last call
    calls,             \* history: per call, the dict returned and what it logged
    given_column,      \* the column given to _convert_to_target_type
    converted,         \* what _convert_to_target_type answered, and for which type
    schema_sheet,      \* the sheet analyze_schema_file loads
    analysis_results,  \* SmartSchemaAnalyzer.analysis_results
    analysis_returned  \* what analyze_schema_file returned

scorer_vars == <<results, compliance, scorer_pc>>

schema_vars == <<heap, session_schema_analysis, session_original_schema,
                 session_compliant_schema, problem_analysis, runs, before, analyzed>>

processor_vars == <<data_file, improvement_log, processing_results,
                    improved_data, calls>>

coercion_vars == <<given_column, converted>>

analyzer_vars == <<schema_sheet, analysis_results, analysis_returned>>

vars == <<results, compliance, scorer_pc, heap, session_schema_analysis,
          session_original_schema, session_compliant_schema, problem_analysis,
          runs, before, analyzed, data_file, improvement_log,
          processing_results, improved_data, calls, given_column, converted,
          schema_sheet, analysis_results, analysis_returned>>

(***************************************************************************)
(* Bounds of the model                                                     *)
(***************************************************************************)
\* largest number of entries of a measured-score mapping
MaxMeasured == 2

\* largest number of columns of an input schema model
MaxColumns == 2

\* largest number of transformer runs on one schema model
MaxRuns == 2

\* measured scores that are tried, in hundredths; 120 is out of range
ScoreValues == {0, 50, 80, 95, 100, 120}

\* an id that is not in the catalog
UnknownId == "XX999"

(***************************************************************************)
(* Exact quotients                                                         *)
(***************************************************************************)
RECURSIVE GCD(_, _)
GCD(a, b) == IF b = 0 THEN a ELSE GCD(b, a % b)

Abs(n) == IF n < 0 THEN -n ELSE n

\* n/d in lowest terms, for d > 0
Quot(n, d) ==
    LET g == GCD(Abs(n), d) IN [num |-> n \div g, den |-> d \div g]

QAdd(a, b) == Quot(a.num * b.den + b.num * a.den, a.den * b.den)
\* a * k and a / k for an integer k (k > 0 in QDivInt)
QTimesInt(a, k) == Quot(a.num * k, a.den)
QDivInt(a, k) == Quot(a.num, a.den * k)

QEq(a, b) == a.num * b.den = b.num * a.den
QLeq(a, b) == a.num * b.den <= b.num * a.den
QLess(a, b) == a.num * b.den < b.num * a.den
QInt(n) == Quot(n, 1)

(***************************************************************************)
(* ndmo_standards.py : the catalog                                         *)
(***************************************************************************)
NDMOStandard(c, t, w, crit) ==
    [category |-> c, threshold |-> t, weight |-> w, critical |-> crit]

\* ids in declaration order (the insertion order of the standards dict)
StandardIds ==
    << "DG001", "DG002", "DG003",
       "DQ001", "DQ002", "DQ003", "DQ004", "DQ005", "DQ006",
       "DS001", "DS002", "DS003", "DS004",
       "DA001", "DA002", "DA003",
       "BR001", "BR002", "BR003" >>

standards ==
    [ DG001 |-> NDMOStandard("Data Governance", 100, 20, TRUE),
      DG002 |-> NDMOStandard("Data Governance", 80, 15, FALSE),
      DG003 |-> NDMOStandard("Data Governance", 90, 10, FALSE),
      DQ001 |-> NDMOStandard("Data Quality", 95, 25, TRUE),
      DQ002 |-> NDMOStandard("Data Quality", 98, 20, TRUE),
      DQ003 |-> NDMOStandard("Data Quality", 95, 15, FALSE),
      DQ004 |-> NDMOStandard("Data Quality", 98, 15, FALSE),
      DQ005 |-> NDMOStandard("Data Quality", 95, 15, FALSE),
      DQ006 |-> NDMOStandard("Data Quality", 90, 10, FALSE),
      DS001 |-> NDMOStandard("Data Security", 100, 30, TRUE),
      DS002 |-> NDMOStandard("Data Security", 95, 25, FALSE),
      DS003 |-> NDMOStandard("Data Security", 100, 20, FALSE),
      DS004 |-> NDMOStandard("Data Security", 95, 25, FALSE),
      DA001 |-> NDMOStandard("Data Architecture", 90, 20, FALSE),
      DA002 |-> NDMOStandard("Data Architecture", 85, 15, FALSE),
      DA003 |-> NDMOStandard("Data Architecture", 90, 15, FALSE),
      BR001 |-> NDMOStandard("Business Rules", 95, 30, FALSE),
      BR002 |-> NDMOStandard("Business Rules", 90, 20, FALSE),
      BR003 |-> NDMOStandard("Business Rules", 98, 25, FALSE) ]

categories ==
    << "Data Governance", "Data Quality", "Data Security",
       "Data Architecture", "Business Rules" >>

\* the ids of a category, in declaration order
get_standards_by_category(category) ==
    SelectSeq(StandardIds, LAMBDA id : standards[id].category = category)

\* the ids of the critical standards, in declaration order
get_critical_standards ==
    SelectSeq(StandardIds, LAMBDA id : standards[id].critical)

(***************************************************************************)
(* A mapping id -> score is a Python dict: a sequence of entries           *)
(* [id, score] with pairwise distinct ids, in insertion order.             *)
(***************************************************************************)
Keys(r) == {r[i].id : i \in 1..Len(r)}

\* r[id] for an id of Keys(r)
Lookup(r, id) == r[CHOOSE i \in 1..Len(r) : r[i].id = id].score

(***************************************************************************)
(* ndmo_standards.py : the scorer                                          *)
(***************************************************************************)
CompliantThreshold == 95
PartialThreshold == 80

\* ScoreStep with the weight accumulated only under the threshold test
ScoreStep_WeightInsideIf(acc, e) ==
    IF e.id \in DOMAIN standards
    THEN LET standard == standards[e.id]
             failed == QLess(e.score, QInt(standard.threshold)) IN
         [ total_weight |-> IF failed THEN acc.total_weight + standard.weight
                            ELSE acc.total_weight,
           weighted_score |->
               QAdd(acc.weighted_score, QTimesInt(e.score, standard.weight)),
           critical_failures |->
               IF standard.critical /\ failed
               THEN Append(acc.critical_failures, e.id)
               ELSE acc.critical_failures ]
    ELSE acc

\* ScoreStep normalising over a unit weight per measured standard
ScoreStep_UnitWeight(acc, e) ==
    IF e.id \in DOMAIN standards
    THEN LET standard == standards[e.id] IN
         [ total_weight |-> acc.total_weight + 100,
           weighted_score |->
               QAdd(acc.weighted_score, QTimesInt(e.score, standard.weight)),
           critical_failures |->
               IF standard.critical /\ QLess(e.score, QInt(standard.threshold))
               THEN Append(acc.critical_failures, e.id)
               ELSE acc.critical_failures ]
    ELSE acc

\* lines 278-285: one iteration of the loop over results.items()
ScoreStep(acc, e) ==
    IF e.id \in DOMAIN standards
    THEN LET standard == standards[e.id] IN
         [ total_weight |-> acc.total_weight + standard.weight,
           weighted_score |->
               QAdd(acc.weighted_score, QTimesInt(e.score, standard.weight)),
           critical_failures |->
               IF standard.critical /\ QLess(e.score, QInt(standard.threshold))
               THEN Append(acc.critical_failures, e.id)
               ELSE acc.critical_failures ]
    ELSE acc

RECURSIVE ScoreLoop(_, _, _)
ScoreLoop(r, i, acc) ==
    IF i > Len(r) THEN acc ELSE ScoreLoop(r, i + 1, ScoreStep(acc, r[i]))

\* ComplianceStatusOf testing the aggregate score before the critical failures
ComplianceStatusOf_ScoreFirst(critical_failures, overall_score) ==
    IF QLeq(QInt(CompliantThreshold), overall_score) THEN "compliant"
    ELSE IF critical_failures # <<>> THEN "non_compliant"
    ELSE IF QLeq(QInt(PartialThreshold), overall_score) THEN "partially_compliant"
    ELSE "non_compliant"

\* ComplianceStatusOf with strict comparisons
ComplianceStatusOf_Strict(critical_failures, overall_score) ==
    IF critical_failures # <<>> THEN "non_compliant"
    ELSE IF QLess(QInt(CompliantThreshold), overall_score) THEN "compliant"
    ELSE IF QLess(QInt(PartialThreshold), overall_score) THEN "partially_compliant"
    ELSE "non_compliant"

\* lines 289-297
ComplianceStatusOf(critical_failures, overall_score) ==
    IF critical_failures # <<>> THEN "non_compliant"
    ELSE IF QLeq(QInt(CompliantThreshold), overall_score) THEN "compliant"
    ELSE IF QLeq(QInt(PartialThreshold), overall_score) THEN "partially_compliant"
    ELSE "non_compliant"

RECURSIVE CategoryLoop(_, _, _, _)
CategoryLoop(r, ids, i, category_score) ==
    IF i > Len(ids) THEN category_score
    ELSE CategoryLoop(r, ids, i + 1,
             IF ids[i] \in Keys(r)
             THEN QAdd(category_score,
                       QTimesInt(Lookup(r, ids[i]), standards[ids[i]].weight))
             ELSE category_score)

RECURSIVE SumWeights(_, _)
SumWeights(ids, i) ==
    IF i > Len(ids) THEN 0 ELSE standards[ids[i]].weight + SumWeights(ids, i + 1)

\* SumWeights over the measured standards only
RECURSIVE SumMeasuredWeights(_, _, _)
SumMeasuredWeights(r, ids, i) ==
    IF i > Len(ids) THEN 0
    ELSE (IF ids[i] \in Keys(r) THEN standards[ids[i]].weight ELSE 0)
         + SumMeasuredWeights(r, ids, i + 1)

\* _calculate_category_scores normalised like the overall score
_calculate_category_scores_Measured(r) ==
    [ category \in {categories[k] : k \in 1..Len(categories)} |->
        LET category_standards == get_standards_by_category(category)
            category_weight == SumMeasuredWeights(r, category_standards, 1)
            category_score == CategoryLoop(r, category_standards, 1, QInt(0))
        IN IF category_weight > 0
           THEN QDivInt(category_score, category_weight)
           ELSE QInt(0) ]

_calculate_category_scores(r) ==
    [ category \in {categories[k] : k \in 1..Len(categories)} |->
        LET category_standards == get_standards_by_category(category)
            category_weight == SumWeights(category_standards, 1)
            category_score == CategoryLoop(r, category_standards, 1, QInt(0))
        IN IF category_weight > 0
           THEN QDivInt(category_score, category_weight)
           ELSE QInt(0) ]

\* one entry per measured catalog standard below its threshold
_generate_recommendations(r) ==
    LET below == SelectSeq(r, LAMBDA e :
                     /\ e.id \in DOMAIN standards
                     /\ QLess(e.score, QInt(standards[e.id].threshold)))
    IN [ i \in 1..Len(below) |->
           [ id |-> below[i].id, score |-> below[i].score,
             threshold |-> standards[below[i].id].threshold ] ]

calculate_compliance_score(r) ==
    LET acc == ScoreLoop(r, 1, [ total_weight |-> 0, weighted_score |-> QInt(0),
                                 critical_failures |-> <<>> ])
        overall_score == IF acc.total_weight > 0
                         THEN QDivInt(acc.weighted_score, acc.total_weight)
                         ELSE QInt(0)
    IN [ overall_score |-> overall_score,
         status |-> ComplianceStatusOf(acc.critical_failures, overall_score),
         critical_failures |-> acc.critical_failures,
         category_scores |-> _calculate_category_scores(r),
         recommendations |-> _generate_recommendations(r) ]

(***************************************************************************)
(* Strings as sequences of characters                                      *)
(***************************************************************************)
UpperLetters ==
    << "A", "B", "C", "D", "E", "F", "G", "H", "I", "J", "K", "L", "M",
       "N", "O", "P", "Q", "R", "S", "T", "U", "V", "W", "X", "Y", "Z" >>

LowerLetters ==
    << "a", "b", "c", "d", "e", "f", "g", "h", "i", "j", "k", "l", "m",
       "n", "o", "p", "q", "r", "s", "t", "u", "v", "w", "x", "y", "z" >>

Digits == {"0", "1", "2", "3", "4", "5", "6", "7", "8", "9"}

LowerSet == {LowerLetters[i] : i \in 1..26}

\* the lower-case letter of each upper-case letter
LowerOf == [c \in {UpperLetters[i] : i \in 1..26} |->
               LowerLetters[CHOOSE i \in 1..26 : UpperLetters[i] = c]]

\* str.lower() on one character
LowerChar(c) == IF c \in DOMAIN LowerOf THEN LowerOf[c] ELSE c

\* str.lower()
lower(s) == [i \in 1..Len(s) |-> LowerChar(s[i])]

\* keyword in s
Contains(s, keyword) ==
    \E t \in {s} :
        \E i \in 0..(Len(t) - Len(keyword)) :
            SubSeq(t, i + 1, i + Len(keyword)) = keyword

\* x in list
InList(x, list) == \E i \in 1..Len(list) : list[i] = x

S_id == <<"i", "d">>
S_key == <<"k", "e", "y">>
S_code == <<"c", "o", "d", "e">>
S_date == <<"d", "a", "t", "e">>
S_time == <<"t", "i", "m", "e">>
S_email == <<"e", "m", "a", "i", "l">>
S_phone == <<"p", "h", "o", "n", "e">>
S_mobile == <<"m", "o", "b", "i", "l", "e">>
S_amount == <<"a", "m", "o", "u", "n", "t">>
S_price == <<"p", "r", "i", "c", "e">>
S_charge == <<"c", "h", "a", "r", "g", "e">>
S_documentation == <<"d", "o", "c", "u", "m", "e", "n", "t", "a", "t", "i", "o", "n">>
S_owner == <<"o", "w", "n", "e", "r">>
S_steward == <<"s", "t", "e", "w", "a", "r", "d">>
S_password == <<"p", "a", "s", "s", "w", "o", "r", "d">>
S_ssn == <<"s", "s", "n">>
S_credit == <<"c", "r", "e", "d", "i", "t">>
S_card == <<"c", "a", "r", "d">>
S_secret == <<"s", "e", "c", "r", "e", "t">>
S_private == <<"p", "r", "i", "v", "a", "t", "e">>
S_access == <<"a", "c", "c", "e", "s", "s">>
S_permission == <<"p", "e", "r", "m", "i", "s", "s", "i", "o", "n">>
S_created == <<"c", "r", "e", "a", "t", "e", "d">>
S_modified == <<"m", "o", "d", "i", "f", "i", "e", "d">>
S_updated == <<"u", "p", "d", "a", "t", "e", "d">>
S_audit == <<"a", "u", "d", "i", "t">>
S_log == <<"l", "o", "g">>
S_source == <<"s", "o", "u", "r", "c", "e">>
S_system == <<"s", "y", "s", "t", "e", "m">>
S_import == <<"i", "m", "p", "o", "r", "t">>
S_sync == <<"s", "y", "n", "c">>
S_created_date == <<"c", "r", "e", "a", "t", "e", "d", "_", "d", "a", "t", "e">>
S_modified_date == <<"m", "o", "d", "i", "f", "i", "e", "d", "_", "d", "a", "t", "e">>
S_created_by == <<"c", "r", "e", "a", "t", "e", "d", "_", "b", "y">>
S_modified_by == <<"m", "o", "d", "i", "f", "i", "e", "d", "_", "b", "y">>
S_data_classification == <<"d", "a", "t", "a", "_", "c", "l", "a", "s", "s", "i", "f", "i", "c", "a", "t", "i", "o", "n">>
S_access_level == <<"a", "c", "c", "e", "s", "s", "_", "l", "e", "v", "e", "l">>
S_source_system == <<"s", "o", "u", "r", "c", "e", "_", "s", "y", "s", "t", "e", "m">>
S_extraction_date == <<"e", "x", "t", "r", "a", "c", "t", "i", "o", "n", "_", "d", "a", "t", "e">>
S_data_owner == <<"d", "a", "t", "a", "_", "o", "w", "n", "e", "r">>
S_data_steward == <<"d", "a", "t", "a", "_", "s", "t", "e", "w", "a", "r", "d">>

(***************************************************************************)
(* Python dicts as functions on their keys.  A key whose value is None is  *)
(* modelled as an absent key: every read of the source that can meet a     *)
(* None goes through .get(), which answers None for both.                  *)
(***************************************************************************)
EmptyDict == [k \in {} |-> 0]

\* d[key] = val
Put(d, key, val) == [k \in DOMAIN d \cup {key} |-> IF k = key THEN val ELSE d[k]]

\* d.get(key, default)
Get(d, key, default) == IF key \in DOMAIN d THEN d[key] ELSE default

(***************************************************************************)
(* schema_problem_analyzer.py : SchemaNDMOComplianceProcessor              *)
(***************************************************************************)
MaxIdValue == 999999999
AuditMaxLength == 100
DefaultMaxLength == 255
AmountDecimalPlaces == 2

ZeroStatistics ==
    [ total_values |-> 0, non_null_values |-> 0, null_values |-> 0,
      unique_values |-> 0, duplicate_values |-> 0 ]

TimestampFormat == "YYYY-MM-DD HH:MM:SS"

\* lines 701-724: the column _ensure_primary_key inserts
IdColumn ==
    [ name |-> S_id, data_type |-> "numeric", primary_key |-> TRUE,
      unique |-> TRUE, nullable |-> FALSE,
      constraints |-> [ required |-> TRUE, min_value |-> 1,
                        max_value |-> MaxIdValue, auto_increment |-> TRUE ],
      sample_values |-> <<1, 2, 3, 4, 5>>,
      statistics |-> ZeroStatistics,
      quality_issues |-> <<>>,
      ndmo_standard |-> "DG001",
      description |-> "Primary key for unique identification" ]

\* a mandated field as its list literal declares it
Field(name, data_type, nullable, constraints, ndmo_standard, description) ==
    [ name |-> name, data_type |-> data_type, nullable |-> nullable,
      constraints |-> constraints, ndmo_standard |-> ndmo_standard,
      description |-> description ]

\* field.update({...}) of the four _add_* loops
FieldUpdate(field) ==
    [ k \in DOMAIN field \cup { "unique", "primary_key", "foreign_key",
                                "sample_values", "statistics", "quality_issues" } |->
        CASE k = "unique" -> FALSE
          [] k = "primary_key" -> FALSE
          [] k = "foreign_key" -> FALSE
          [] k = "sample_values" -> <<>>
          [] k = "statistics" -> ZeroStatistics
          [] k = "quality_issues" -> <<>>
          [] OTHER -> field[k] ]

audit_fields ==
    << Field(S_created_date, "datetime", FALSE,
             [required |-> TRUE, format |-> TimestampFormat],
             "DS004", "Record creation timestamp"),
       Field(S_modified_date, "datetime", TRUE,
             [required |-> FALSE, format |-> TimestampFormat],
             "DS004", "Record modification timestamp"),
       Field(S_created_by, "text", FALSE,
             [required |-> TRUE, max_length |-> AuditMaxLength],
             "DS004", "User who created the record"),
       Field(S_modified_by, "text", TRUE,
             [required |-> FALSE, max_length |-> AuditMaxLength],
             "DS004", "User who last modified the record") >>

security_fields ==
    << Field(S_data_classification, "categorical", FALSE,
             [ required |-> TRUE,
               allowed_values |-> <<"Public", "Internal", "Confidential", "Restricted">> ],
             "DS001", "Data classification level"),
       Field(S_access_level, "categorical", FALSE,
             [ required |-> TRUE, allowed_values |-> <<"Read", "Write", "Admin">> ],
             "DS002", "Required access level") >>

lineage_fields ==
    << Field(S_source_system, "text", FALSE,
             [required |-> TRUE, max_length |-> AuditMaxLength],
             "DG002", "Source system identifier"),
       Field(S_extraction_date, "datetime", FALSE,
             [required |-> TRUE, format |-> TimestampFormat],
             "DG002", "Data extraction timestamp") >>

ownership_fields ==
    << Field(S_data_owner, "text", FALSE,
             [required |-> TRUE, max_length |-> AuditMaxLength],
             "DG003", "Data owner department or person"),
       Field(S_data_steward, "text", TRUE,
             [required |-> FALSE, max_length |-> AuditMaxLength],
             "DG003", "Data steward responsible for quality") >>

\* [col.get("name", "").lower() for col in columns]
ExistingNames(columns) == [i \in 1..Len(columns) |-> lower(columns[i].name)]

\* _ensure_primary_key overwriting the first column instead of inserting
_ensure_primary_key_Overwrite(columns) ==
    IF ~ \E i \in 1..Len(columns) : Get(columns[i], "primary_key", FALSE)
    THEN IF columns = <<>> THEN <<IdColumn>> ELSE <<IdColumn>> \o Tail(columns)
    ELSE columns

\* lines 692-724
_ensure_primary_key(columns) ==
    LET has_primary_key == \E i \in 1..Len(columns) : Get(columns[i], "primary_key", FALSE)
    IN IF ~has_primary_key THEN <<IdColumn>> \o columns ELSE columns

\* the loop "for field in fields: if field['name'] not in existing_names:
\* field.update(...); columns.append(field)"; existing_names is computed once
RECURSIVE AppendMissing(_, _, _, _)
AppendMissing(columns, existing_names, fields, i) ==
    IF i > Len(fields) THEN columns
    ELSE AppendMissing(
             IF ~ InList(fields[i].name, existing_names)
             THEN Append(columns, FieldUpdate(fields[i]))
             ELSE columns,
             existing_names, fields, i + 1)

\* _add_audit_trail_fields appending without the name test
_add_audit_trail_fields_Always(columns) ==
    columns \o [i \in 1..Len(audit_fields) |-> FieldUpdate(audit_fields[i])]

\* lines 726-793
_add_audit_trail_fields(columns) ==
    AppendMissing(columns, ExistingNames(columns), audit_fields, 1)

\* lines 797-814, for one column
ImproveDataType(column) ==
    LET column_name == lower(column.name)
        SetConstraint(col, key, val) ==
            Put(col, "constraints", Put(col.constraints, key, val))
    IN IF Contains(column_name, S_date) \/ Contains(column_name, S_time)
       THEN SetConstraint(Put(column, "data_type", "datetime"), "format", TimestampFormat)
       ELSE IF Contains(column_name, S_email)
       THEN SetConstraint(Put(column, "data_type", "email"), "pattern", "email_pattern")
       ELSE IF Contains(column_name, S_phone) \/ Contains(column_name, S_mobile)
       THEN SetConstraint(Put(column, "data_type", "phone"), "pattern", "phone_pattern")
       ELSE IF \/ Contains(column_name, S_amount)
               \/ Contains(column_name, S_price)
               \/ Contains(column_name, S_charge)
       THEN SetConstraint(
                SetConstraint(Put(column, "data_type", "numeric"), "min_value", 0),
                "decimal_places", AmountDecimalPlaces)
       ELSE column

\* lines 795-814
_improve_data_types_for_ndmo(columns) ==
    [i \in 1..Len(columns) |-> ImproveDataType(columns[i])]

\* lines 818-835, for one column
AddQualityConstraints(column) ==
    LET column_name == lower(column.name)
        keyed == Contains(column_name, S_id) \/ Contains(column_name, S_key)
        c0 == Get(column, "constraints", EmptyDict)
        c1 == IF keyed THEN Put(c0, "required", TRUE) ELSE c0
        col1 == IF keyed THEN Put(column, "nullable", FALSE) ELSE column
        c2 == IF /\ Get(col1, "data_type", "") = "text"
                 /\ Get(c1, "max_length", 0) = 0
              THEN Put(c1, "max_length", DefaultMaxLength)
              ELSE c1
        c3 == IF Contains(column_name, S_code)
              THEN Put(Put(c2, "pattern", "code_pattern"), "case_sensitive", TRUE)
              ELSE c2
    IN IF "constraints" \in DOMAIN column THEN Put(col1, "constraints", c3) ELSE col1

\* lines 816-835
_add_data_quality_constraints(columns) ==
    [i \in 1..Len(columns) |-> AddQualityConstraints(columns[i])]

\* lines 837-882
_add_security_fields(columns) ==
    AppendMissing(columns, ExistingNames(columns), security_fields, 1)

BusinessRule(rule_id, rule_name, severity, ndmo_standard) ==
    [ rule_id |-> rule_id, rule_name |-> rule_name, severity |-> severity,
      ndmo_standard |-> ndmo_standard ]

\* lines 884-924
_add_comprehensive_business_rules(schema_info) ==
    Put(schema_info, "business_rules",
        << BusinessRule("BR001", "Primary Key Constraint", "critical", "DG001"),
           BusinessRule("BR002", "Audit Trail Requirement", "high", "DS004"),
           BusinessRule("BR003", "Data Classification", "high", "DS001"),
           BusinessRule("BR004", "Data Completeness", "medium", "DQ001"),
           BusinessRule("BR005", "Data Validity", "medium", "DQ005") >>)

\* lines 926-971
_add_data_lineage_fields(columns) ==
    AppendMissing(columns, ExistingNames(columns), lineage_fields, 1)

\* _add_data_ownership_fields appending nothing
_add_data_ownership_fields_Nothing(columns) == columns

\* lines 973-1018
_add_data_ownership_fields(columns) ==
    AppendMissing(columns, ExistingNames(columns), ownership_fields, 1)

Improvement(improvement, ndmo_standard) ==
    [improvement |-> improvement, ndmo_standard |-> ndmo_standard]

\* lines 1020-1053
_get_compliance_improvements ==
    << Improvement("Added Primary Key", "DG001"),
       Improvement("Added Audit Trail Fields", "DS004"),
       Improvement("Improved Data Types", "DQ005"),
       Improvement("Added Security Classification", "DS001"),
       Improvement("Added Data Lineage Tracking", "DG002"),
       Improvement("Added Data Ownership", "DG003") >>

(***************************************************************************)
(* The heap.  An analysis result is a dict whose "schema_analysis" entry   *)
(* refers to the schema model dict; dict.copy() copies the outer dict and  *)
(* shares what it refers to.  h is the sequence of schema model dicts and  *)
(* a reference is an index into it.                                        *)
(***************************************************************************)
\* dict.copy(): a new dict with the same entries, each referring to the
\* same object as before
DictCopy(d) == d

\* lines 661-683, the steps that work on the columns list, in call order
\* (step 6 works on business_rules only)
CompliantColumns(columns) ==
    _add_data_ownership_fields(
        _add_data_lineage_fields(
            _add_security_fields(
                _add_data_quality_constraints(
                    _improve_data_types_for_ndmo(
                        _add_audit_trail_fields(
                            _ensure_primary_key(columns)))))))

\* lines 685-688, on the schema model with its columns list as mutated
UpdateSchemaInfo(schema_info, columns) ==
    Put(Put(Put(Put(schema_info, "columns", columns),
                "total_columns", Len(columns)),
            "ndmo_compliant", TRUE),
        "compliance_improvements", _get_compliance_improvements)

\* lines 653-690; answers the heap after the call and the dict returned.
\* columns and schema_info are the objects the argument refers to, so the
\* steps mutate the schema model in place.
make_schema_ndmo_compliant(h, schema_analysis) ==
    LET compliant_schema == DictCopy(schema_analysis)
        ref == compliant_schema.schema_analysis
    IN [ heap |-> [h EXCEPT ![ref] =
                      UpdateSchemaInfo(_add_comprehensive_business_rules(h[ref]),
                                       CompliantColumns(h[ref].columns))],
         result |-> compliant_schema ]

(***************************************************************************)
(* ndmo_standards.py : validate_schema_compliance                          *)
(***************************************************************************)
\* Python truth of d.get(key, False) for a flag
Truthy(d, key) == Get(d, key, FALSE) = TRUE

\* number of indices of list that satisfy Test
CountOf(list, Test(_)) == Cardinality({i \in 1..Len(list) : Test(list[i])})

\* lines 361-367
_check_primary_key(schema_data) ==
    LET columns == Get(schema_data, "columns", <<>>)
    IN \E i \in 1..Len(columns) :
          Truthy(columns[i], "primary_key") \/ Truthy(columns[i], "unique")

\* lines 369-380: min(1.0, required_fields / max(len(columns) * 0.3, 1))
_check_completeness_requirements(schema_data) ==
    LET columns == Get(schema_data, "columns", <<>>)
        required_fields == CountOf(columns, LAMBDA column : Truthy(column, "required"))
        ratio == IF 3 * Len(columns) > 10
                 THEN Quot(100 * 10 * required_fields, 3 * Len(columns))
                 ELSE QInt(100 * required_fields)
    IN IF columns = <<>> THEN QInt(0)
       ELSE IF QLeq(QInt(100), ratio) THEN QInt(100) ELSE ratio

\* lines 382-393
_check_data_validity(schema_data) ==
    LET columns == Get(schema_data, "columns", <<>>)
        valid_columns ==
            CountOf(columns, LAMBDA column :
                /\ Get(column, "data_type", "") # ""
                /\ Get(column, "constraints", EmptyDict) # EmptyDict)
    IN IF columns = <<>> THEN QInt(0)
       ELSE Quot(100 * valid_columns, Len(columns))

\* lines 395-402
_check_business_rules(schema_data) ==
    LET business_rules == Get(schema_data, "business_rules", <<>>)
        implemented_rules ==
            CountOf(business_rules, LAMBDA rule : Truthy(rule, "implemented"))
    IN IF business_rules = <<>> THEN QInt(50)
       ELSE Quot(100 * implemented_rules, Len(business_rules))

\* lines 339-359
validate_schema_compliance(schema_data) ==
    calculate_compliance_score(
        << [id |-> "DG001",
            score |-> IF _check_primary_key(schema_data) THEN QInt(100) ELSE QInt(0)],
           [id |-> "DQ001", score |-> _check_completeness_requirements(schema_data)],
           [id |-> "DQ005", score |-> _check_data_validity(schema_data)],
           [id |-> "BR001", score |-> _check_business_rules(schema_data)] >>)

(***************************************************************************)
(* schema_problem_analyzer.py : SchemaProblemAnalyzer                      *)
(***************************************************************************)
Problem(id, name, impact, solution) ==
    [id |-> id, name |-> name, impact |-> impact, solution |-> solution]

EmptyProblems ==
    [ critical_problems |-> <<>>, major_problems |-> <<>>, minor_problems |-> <<>>,
      missing_requirements |-> <<>>, correction_plan |-> EmptyDict,
      priority_actions |-> <<>> ]

\* problems[severity].append(problem) when the test holds
Report(problems, test, severity, problem) ==
    IF test THEN Put(problems, severity, Append(problems[severity], problem))
    ELSE problems

\* any(keyword in col.get("name", "").lower() ...) over columns and keywords
AnyNameContains(columns, keywords) ==
    \E i \in 1..Len(columns) : \E keyword \in keywords :
        Contains(lower(Get(columns[i], "name", <<>>)), keyword)

\* _analyze_data_governance_problems reporting DG001 once per column that is
\* not a primary key
_analyze_data_governance_problems_PerColumn(schema_info, problems) ==
    LET columns == Get(schema_info, "columns", <<>>)
        missing == SelectSeq(columns, LAMBDA col : ~Truthy(col, "primary_key"))
    IN Put(problems, "critical_problems",
           problems.critical_problems \o
           [ i \in 1..Len(missing) |->
               Problem("DG001", "Missing Primary Key",
                       "Critical - Data integrity compromised",
                       "Add a primary key column (e.g., 'id', 'serial_number')") ])

\* lines 62-100
_analyze_data_governance_problems(schema_info, problems) ==
    LET columns == Get(schema_info, "columns", <<>>)
        has_primary_key == \E i \in 1..Len(columns) : Truthy(columns[i], "primary_key")
        has_documentation == AnyNameContains(columns, {S_documentation})
        has_ownership == AnyNameContains(columns, {S_owner, S_steward})
        p1 == Report(problems, ~has_primary_key, "critical_problems",
                  Problem("DG001", "Missing Primary Key",
                          "Critical - Data integrity compromised",
                          "Add a primary key column (e.g., 'id', 'serial_number')"))
        p2 == Report(p1, ~has_documentation, "major_problems",
                  Problem("DG002", "Missing Data Lineage",
                          "Major - Data traceability compromised",
                          "Add columns for data source and transformation history"))
    IN Report(p2, ~has_ownership, "major_problems",
           Problem("DG003", "Missing Data Ownership",
                   "Major - Data accountability unclear",
                   "Add columns for data owner and steward"))

\* lines 102-152
_analyze_data_quality_problems(schema_info, problems) ==
    LET columns == Get(schema_info, "columns", <<>>)
        required_fields ==
            CountOf(columns, LAMBDA col :
                Truthy(Get(col, "constraints", EmptyDict), "required"))
        fields_with_validation ==
            CountOf(columns, LAMBDA col : Get(col, "constraints", EmptyDict) # EmptyDict)
        unique_fields == CountOf(columns, LAMBDA col : Truthy(col, "unique"))
        unknown_types ==
            CountOf(columns, LAMBDA col : Get(col, "data_type", "") = "unknown")
        p1 == Report(problems, 10 * required_fields < 3 * Len(columns), "major_problems",
                  Problem("DQ001", "Insufficient Required Fields",
                          "Major - Data completeness compromised",
                          "Mark critical fields as required"))
        p2 == Report(p1, 2 * fields_with_validation < Len(columns), "major_problems",
                  Problem("DQ002", "Insufficient Data Validation",
                          "Major - Data accuracy compromised",
                          "Add validation rules for all fields"))
        p3 == Report(p2, unique_fields < 2, "major_problems",
                  Problem("DQ004", "Insufficient Uniqueness Constraints",
                          "Major - Data uniqueness compromised",
                          "Add uniqueness constraints to key fields"))
    IN Report(p3, unknown_types > 0, "minor_problems",
           Problem("DQ005", "Unknown Data Types",
                   "Minor - Data type validation compromised",
                   "Define specific data types for all fields"))

\* lines 154-194
_analyze_data_security_problems(schema_info, problems) ==
    LET columns == Get(schema_info, "columns", <<>>)
        sensitive_fields ==
            SelectSeq(columns, LAMBDA col :
                AnyNameContains(<<col>>, {S_password, S_ssn, S_credit, S_card,
                                          S_secret, S_private}))
        has_access_control == AnyNameContains(columns, {S_access, S_permission})
        has_audit_trail ==
            AnyNameContains(columns, {S_created, S_modified, S_updated, S_audit, S_log})
        p1 == Report(problems, sensitive_fields # <<>>, "critical_problems",
                  Problem("DS001", "Sensitive Data Exposure",
                          "Critical - Data security compromised",
                          "Encrypt or mask sensitive data fields"))
        p2 == Report(p1, ~has_access_control, "major_problems",
                  Problem("DS002", "Missing Access Control",
                          "Major - Data access control compromised",
                          "Add access control fields"))
    IN Report(p2, ~has_audit_trail, "major_problems",
           Problem("DS004", "Missing Audit Trail",
                   "Major - Data tracking compromised",
                   "Add audit trail fields"))

\* lines 253-257: re.match(r'^[a-z][a-z0-9_]*$', field_name.lower())
_is_consistent_naming(field_name) ==
    LET s == lower(field_name)
    IN /\ s # <<>>
       /\ s[1] \in LowerSet
       /\ \A i \in 2..Len(s) : s[i] \in LowerSet \cup Digits \cup {"_"}

\* lines 196-223
_analyze_data_architecture_problems(schema_info, problems) ==
    LET columns == Get(schema_info, "columns", <<>>)
        inconsistent_naming ==
            CountOf(columns, LAMBDA col :
                ~_is_consistent_naming(Get(col, "name", <<>>)))
        has_integration_fields ==
            AnyNameContains(columns, {S_source, S_system, S_import, S_sync})
        p1 == Report(problems, inconsistent_naming > 0, "minor_problems",
                  Problem("DA001", "Inconsistent Naming",
                          "Minor - Data architecture compromised",
                          "Standardize field naming conventions"))
    IN Report(p1, ~has_integration_fields, "minor_problems",
           Problem("DA002", "Missing Integration Fields",
                   "Minor - Data integration compromised",
                   "Add integration tracking fields"))

\* lines 225-251
_analyze_business_rules_problems(schema_info, problems) ==
    LET business_rules == Get(schema_info, "business_rules", <<>>)
        implemented_rules ==
            CountOf(business_rules, LAMBDA rule : Truthy(rule, "implemented"))
        relationships == Get(schema_info, "relationships", <<>>)
        p1 == Report(problems, 2 * implemented_rules < Len(business_rules),
                  "major_problems",
                  Problem("BR001", "Insufficient Business Rules",
                          "Major - Business logic compromised",
                          "Implement all business rules"))
    IN Report(p1, Len(relationships) = 0, "major_problems",
           Problem("BR002", "Missing Data Relationships",
                   "Major - Data integrity compromised",
                   "Define foreign key relationships"))

Action(problem, effort, priority) ==
    [ problem_id |-> problem.id, action |-> problem.solution,
      effort |-> effort, priority |-> priority ]

\* lines 259-317; the efforts are in half hours (the source's hours times 2)
_generate_correction_plan(problems) ==
    LET immediate == [i \in 1..Len(problems.critical_problems) |->
                         Action(problems.critical_problems[i], "High", "Critical")]
        short_term == [i \in 1..Len(problems.major_problems) |->
                          Action(problems.major_problems[i], "Medium", "High")]
        long_term == [i \in 1..Len(problems.minor_problems) |->
                         Action(problems.minor_problems[i], "Low", "Medium")]
    IN [ immediate_actions |-> immediate,
         short_term_actions |-> short_term,
         long_term_actions |-> long_term,
         estimated_effort |->
             [ immediate |-> Len(immediate) * 4,
               short_term |-> Len(short_term) * 2,
               long_term |-> Len(long_term),
               total |-> Len(immediate) * 4 + Len(short_term) * 2 + Len(long_term) ],
         resources_needed |-> << "Database Administrator", "Data Analyst",
                                 "Business Analyst", "Security Specialist" >> ]

PriorityAction(problem, priority, impact, effort) ==
    [ problem_id |-> problem.id, name |-> problem.name, priority |-> priority,
      impact |-> impact, effort |-> effort, action |-> problem.solution ]

\* lines 319-359: the three lists are appended in priority order, so the
\* stable sort by priority leaves the list as it is
_prioritize_actions(problems) ==
    [i \in 1..Len(problems.critical_problems) |->
        PriorityAction(problems.critical_problems[i], 1, "Critical", "High")]
    \o [i \in 1..Len(problems.major_problems) |->
        PriorityAction(problems.major_problems[i], 2, "Major", "Medium")]
    \o [i \in 1..Len(problems.minor_problems) |->
        PriorityAction(problems.minor_problems[i], 3, "Minor", "Low")]

\* lines 32-60; h is the heap, schema_analysis the analysis result dict
analyze_schema_problems(h, schema_analysis) ==
    LET schema_info == IF "schema_analysis" \in DOMAIN schema_analysis
                       THEN h[schema_analysis.schema_analysis]
                       ELSE EmptyDict
        p1 == _analyze_data_governance_problems(schema_info, EmptyProblems)
        p2 == _analyze_data_quality_problems(schema_info, p1)
        p3 == _analyze_data_security_problems(schema_info, p2)
        p4 == _analyze_data_architecture_problems(schema_info, p3)
        p5 == _analyze_business_rules_problems(schema_info, p4)
        p6 == Put(p5, "correction_plan", _generate_correction_plan(p5))
    IN Put(p6, "priority_actions", _prioritize_actions(p6))

(***************************************************************************)
(* Schema models the inference engine hands over (smart_schema_analyzer.py)*)
(***************************************************************************)
S_customer_name == <<"c", "u", "s", "t", "o", "m", "e", "r", "_", "n", "a", "m", "e">>
S_Created_Date == <<"C", "r", "e", "a", "t", "e", "d", "_", "D", "a", "t", "e">>
S_order_key == <<"o", "r", "d", "e", "r", "_", "k", "e", "y">>
S_Unit_Price == <<"U", "n", "i", "t", " ", "P", "r", "i", "c", "e">>

S__id == <<"_", "i", "d">>
S__key == <<"_", "k", "e", "y">>
S_ref_ == <<"r", "e", "f", "_">>
S_foreign == <<"f", "o", "r", "e", "i", "g", "n">>

\* smart_schema_analyzer.py lines 466-473
_is_foreign_key(column_name) ==
    \E pattern \in {S__id, S__key, S_ref_, S_foreign} :
        Contains(lower(column_name), pattern)

\* a column dict as _analyze_column builds it
InputColumn(name, data_type, primary_key, unique, nullable, constraints) ==
    [ name |-> name, data_type |-> data_type, nullable |-> nullable,
      unique |-> unique, primary_key |-> primary_key,
      foreign_key |-> _is_foreign_key(name),
      constraints |-> constraints, sample_values |-> <<>>,
      statistics |-> [ total_values |-> 1, non_null_values |-> 1, null_values |-> 0,
                       unique_values |-> 1, duplicate_values |-> 0 ],
      quality_issues |-> <<>> ]

\* the columns of sampled tables: an "id" with distinct values and one with
\* repeated values, plain text, a date kept as text, an amount, a key, a
\* column named like a mandated one, a header with a space
InputColumns ==
    { InputColumn(S_id, "numeric", TRUE, TRUE, FALSE,
                  [required |-> TRUE, min_value |-> 1, max_value |-> 50]),
      InputColumn(S_id, "numeric", FALSE, FALSE, TRUE,
                  [required |-> FALSE, min_value |-> 1, max_value |-> 50]),
      InputColumn(S_customer_name, "text", FALSE, FALSE, TRUE, EmptyDict),
      InputColumn(S_Created_Date, "text", FALSE, FALSE, TRUE,
                  [required |-> FALSE, format |-> "date"]),
      InputColumn(S_amount, "numeric", FALSE, FALSE, FALSE,
                  [required |-> TRUE, min_value |-> 10, max_value |-> 90]),
      InputColumn(S_order_key, "text", TRUE, TRUE, FALSE,
                  [required |-> TRUE, min_length |-> 4, max_length |-> 40]),
      InputColumn(S_data_owner, "text", FALSE, TRUE, TRUE,
                  [required |-> FALSE, min_length |-> 3, max_length |-> 500]),
      InputColumn(S_Unit_Price, "numeric", FALSE, FALSE, TRUE,
                  [required |-> FALSE, min_value |-> 0, max_value |-> 20]) }

RECURSIVE ColumnLists(_)
ColumnLists(n) ==
    IF n = 0 THEN {<<>>}
    ELSE ColumnLists(n - 1)
         \cup { Append(cs, c) : cs \in ColumnLists(n - 1), c \in InputColumns }

\* lines 505-546 of smart_schema_analyzer.py: the default rules of a sampled
\* table, none of them implemented
DefaultBusinessRules ==
    << [name |-> "Unique Identifiers", type |-> "uniqueness", implemented |-> FALSE],
       [name |-> "Data Validation", type |-> "validation", implemented |-> FALSE],
       [name |-> "Referential Integrity", type |-> "integrity", implemented |-> FALSE] >>

\* a table with one column named like a rule has one more, implemented, rule
BusinessRuleOptions ==
    { <<>>,
      DefaultBusinessRules,
      << [name |-> "rule", type |-> "constraint", implemented |-> TRUE] >>
         \o DefaultBusinessRules }

\* smart_schema_analyzer.py lines 536-552: one record per column named like a
\* foreign key
RECURSIVE _analyze_relationships(_)
_analyze_relationships(columns) ==
    IF columns = <<>> THEN <<>>
    ELSE LET column == Head(columns).name
         IN (IF _is_foreign_key(column)
             THEN << [type |-> "foreign_key", child_column |-> column,
                      relationship_type |-> "many_to_one"] >>
             ELSE <<>>)
            \o _analyze_relationships(Tail(columns))

InputSchemas ==
    { [ columns |-> cs, business_rules |-> rules,
        relationships |-> _analyze_relationships(cs),
        total_columns |-> Len(cs) ] :
        cs \in ColumnLists(MaxColumns),
        rules \in BusinessRuleOptions }

(***************************************************************************)
(* The scorer as a state machine: the caller fills a mapping entry by      *)
(* entry and passes it to calculate_compliance_score, which returns the    *)
(* compliance dict.                                                        *)
(***************************************************************************)
\* the ids a caller measures: the catalog's, then one the catalog lacks
MeasurableIds == StandardIds \o <<UnknownId>>

NoCompliance ==
    [ overall_score |-> QInt(0), status |-> "not_applicable",
      critical_failures |-> <<>>,
      category_scores |-> [c \in {categories[k] : k \in 1..Len(categories)} |-> QInt(0)],
      recommendations |-> <<>> ]

ScorerIdle ==
    /\ results = <<>>
    /\ compliance = NoCompliance
    /\ scorer_pc = "idle"

SchemaIdle ==
    /\ heap = <<>>
    /\ session_schema_analysis = EmptyDict
    /\ session_original_schema = EmptyDict
    /\ session_compliant_schema = EmptyDict
    /\ problem_analysis = EmptyDict
    /\ runs = 0
    /\ before = EmptyDict
    /\ analyzed = EmptyDict

\* SmartDataProcessor.__init__ (smart_data_processor.py lines 26-32), no file
ProcessorIdle ==
    /\ data_file = EmptyDict
    /\ improvement_log = <<>>
    /\ processing_results = EmptyDict
    /\ improved_data = <<>>
    /\ calls = <<>>

CoercionIdle ==
    /\ given_column = EmptyDict
    /\ converted = EmptyDict

\* SmartSchemaAnalyzer.__init__ (smart_schema_analyzer.py lines 26-31), no file
AnalyzerIdle ==
    /\ schema_sheet = <<>>
    /\ analysis_results = EmptyDict
    /\ analysis_returned = EmptyDict

InitScorer == ScorerIdle /\ SchemaIdle /\ ProcessorIdle /\ CoercionIdle /\ AnalyzerIdle

\* the caller's results[id] = score for an id not measured yet.  Entries are
\* added in the order of MeasurableIds: every set of ids is reached once, and
\* the order of a dict only decides the order of the lists in the result.
Measure ==
    /\ scorer_pc = "idle"
    /\ Len(results) < MaxMeasured
    /\ \E k \in 1..Len(MeasurableIds), s \in ScoreValues :
          /\ \A i \in 1..Len(results) :
                \E j \in 1..(k - 1) : MeasurableIds[j] = results[i].id
          /\ results' = Append(results, [id |-> MeasurableIds[k], score |-> QInt(s)])
    /\ UNCHANGED <<compliance, scorer_pc>>
    /\ UNCHANGED <<schema_vars, processor_vars, coercion_vars, analyzer_vars>>

CalculateComplianceScore ==
    /\ scorer_pc = "idle"
    /\ compliance' = calculate_compliance_score(results)
    /\ scorer_pc' = "returned"
    /\ UNCHANGED results
    /\ UNCHANGED <<schema_vars, processor_vars, coercion_vars, analyzer_vars>>

NextScorer == Measure \/ CalculateComplianceScore

SpecScorer == InitScorer /\ [][NextScorer]_vars

(***************************************************************************)
(* The schema tools as a state machine.  analyze_schema_file has stored an *)
(* analysis result; the dashboard then makes it compliant, any number of   *)
(* times, and analyses its problems.                                       *)
(***************************************************************************)
\* smart_schema_analyzer.py lines 59-70: the result refers to the schema
\* model and holds the compliance result of that model
InitSchema ==
    /\ ScorerIdle /\ ProcessorIdle /\ CoercionIdle /\ AnalyzerIdle
    /\ \E schema_info \in InputSchemas :
          /\ heap = <<schema_info>>
          /\ session_schema_analysis =
                [ schema_analysis |-> 1,
                  ndmo_compliance |-> validate_schema_compliance(schema_info) ]
    /\ session_original_schema = EmptyDict
    /\ session_compliant_schema = EmptyDict
    /\ problem_analysis = EmptyDict
    /\ runs = 0
    /\ before = EmptyDict
    /\ analyzed = EmptyDict

\* professional_dashboard_backup.py lines 2838-2851: keep a copy of the
\* analysis result, run the processor on the result itself, store what it
\* returns and validate it again
MakeSchemaNdmoCompliant ==
    /\ runs < MaxRuns
    /\ \E call \in {make_schema_ndmo_compliant(heap, session_schema_analysis)} :
       \E validated \in {Put(call.result, "ndmo_compliance",
                              validate_schema_compliance(call.result))} :
          /\ session_original_schema' = DictCopy(session_schema_analysis)
          /\ heap' = call.heap
          /\ session_compliant_schema' = validated
          /\ session_schema_analysis' = validated
          /\ before' = heap[session_schema_analysis.schema_analysis]
    /\ runs' = runs + 1
    /\ UNCHANGED <<problem_analysis, analyzed>>
    /\ UNCHANGED <<scorer_vars, processor_vars, coercion_vars, analyzer_vars>>

\* schema_problem_analyzer.py lines 32-60
AnalyzeSchemaProblems ==
    /\ problem_analysis' = analyze_schema_problems(heap, session_schema_analysis)
    /\ analyzed' = heap[session_schema_analysis.schema_analysis]
    /\ UNCHANGED <<heap, session_schema_analysis, session_original_schema,
                   session_compliant_schema, runs, before>>
    /\ UNCHANGED <<scorer_vars, processor_vars, coercion_vars, analyzer_vars>>

NextSchema == MakeSchemaNdmoCompliant \/ AnalyzeSchemaProblems

SpecSchema == InitSchema /\ [][NextSchema]_vars

(***************************************************************************)
(* Properties of the scorer                                                *)
(***************************************************************************)
CategorySet == {categories[k] : k \in 1..Len(categories)}

\* sum of f over the finite set S
RECURSIVE SumOver(_, _)
SumOver(f, S) ==
    IF S = {} THEN 0
    ELSE LET x == CHOOSE y \in S : TRUE IN f[x] + SumOver(f, S \ {x})

\* the catalog ids a mapping measures, and those of one category
Measured(r) == Keys(r) \cap DOMAIN standards
IdsOf(category) == {id \in DOMAIN standards : standards[id].category = category}

WeightOf == [id \in DOMAIN standards |-> standards[id].weight]
\* the scores the scorer model enumerates are whole hundredths
WeightedOf(r) ==
    [id \in Measured(r) |-> Lookup(r, id).num * standards[id].weight]

Returned == scorer_pc = "returned"

\* C1: whenever the returned critical_failures is non-empty the returned
\* status is non_compliant, whatever the overall score is.
C1_CriticalFailureForcesNonCompliant ==
    (Returned /\ compliance.critical_failures # <<>>)
        => compliance.status = "non_compliant"

\* a critical failure together with an aggregate score of at least 0.95
C1_Witness ==
    /\ Returned
    /\ compliance.critical_failures # <<>>
    /\ QLeq(QInt(CompliantThreshold), compliance.overall_score)
    /\ compliance.status = "non_compliant"

\* C2: overall_score is sum(score*weight)/sum(weight) over the ids of the
\* mapping that are in the catalog and 0 when there is none; a mapping that
\* measures one standard at 1.0 scores 1.0 and is compliant.
C2_OverallIsWeightedMean ==
    Returned =>
        LET M == Measured(results)
            total == SumOver(WeightOf, M)
            weighted == SumOver(WeightedOf(results), M)
        IN /\ M = {} => compliance.overall_score.num = 0
           /\ M # {} => QEq(compliance.overall_score, Quot(weighted, total))
           /\ (Cardinality(M) = 1 /\ \A id \in M : Lookup(results, id) = QInt(100))
                 => /\ QEq(compliance.overall_score, QInt(100))
                    /\ compliance.status = "compliant"

\* scenario A: only DG001 (weight 0.2) measured, at 1.0
C2_Witness ==
    /\ Returned
    /\ results = <<[id |-> "DG001", score |-> QInt(100)]>>
    /\ QEq(compliance.overall_score, QInt(100))
    /\ compliance.status = "compliant"

\* C3: a category's score is the weighted sum over its measured standards
\* divided by the weight of all its declared standards; it is 0 with nothing
\* measured and below 1.0 when all measured are 1.0 but one is unmeasured.
C3_CategoryOverDeclaredWeight ==
    Returned =>
        \A c \in CategorySet :
            LET M == Measured(results) \cap IdsOf(c)
                declared == SumOver(WeightOf, IdsOf(c))
                weighted == SumOver(WeightedOf(results), M)
                got == compliance.category_scores[c]
            IN /\ QEq(got, Quot(weighted, declared))
               /\ M = {} => got.num = 0
               /\ ( /\ M # IdsOf(c)
                    /\ \A id \in M : Lookup(results, id) = QInt(100) )
                     => QLess(got, QInt(100))

\* a category with a standard measured at 1.0 and another unmeasured
C3_Witness ==
    /\ Returned
    /\ \E c \in CategorySet :
          /\ Measured(results) \cap IdsOf(c) # {}
          /\ \A id \in Measured(results) \cap IdsOf(c) : Lookup(results, id) = QInt(100)
          /\ QLess(QInt(0), compliance.category_scores[c])
          /\ QLess(compliance.category_scores[c], QInt(100))

InUnit(q) == QLeq(QInt(0), q) /\ QLeq(q, QInt(100))

\* C4: when every measured score lies in [0,1] the overall score and every
\* category score lie in [0,1].
C4_ScoresInUnitInterval ==
    (Returned /\ \A i \in 1..Len(results) : InUnit(results[i].score))
        => /\ InUnit(compliance.overall_score)
           /\ \A c \in CategorySet : InUnit(compliance.category_scores[c])

\* in-range scores of a known and an unknown id, with a positive result
C4_Witness ==
    /\ Returned
    /\ Len(results) = MaxMeasured
    /\ \A i \in 1..Len(results) : InUnit(results[i].score)
    /\ UnknownId \in Keys(results)
    /\ QLess(QInt(0), compliance.overall_score)
    /\ QLess(compliance.overall_score, QInt(100))

\* C5: with no critical failure, status is compliant exactly when
\* overall_score >= 0.95, partially_compliant exactly when it is in
\* [0.8, 0.95) and non_compliant otherwise (so with no known id); a critical
\* standard measured at exactly its threshold is not a critical failure.
C5_StatusThresholds ==
    Returned =>
        LET overall == compliance.overall_score
            failures == {compliance.critical_failures[i] :
                            i \in 1..Len(compliance.critical_failures)}
        IN /\ compliance.critical_failures = <<>> =>
                /\ compliance.status = "compliant"
                      <=> QLeq(QInt(95), overall)
                /\ compliance.status = "partially_compliant"
                      <=> (QLeq(QInt(80), overall) /\ QLess(overall, QInt(95)))
                /\ compliance.status = "non_compliant"
                      <=> QLess(overall, QInt(80))
                /\ Measured(results) = {} => compliance.status = "non_compliant"
           /\ \A id \in Measured(results) :
                 ( /\ standards[id].critical
                   /\ Lookup(results, id) = QInt(standards[id].threshold) )
                     => id \notin failures

\* a critical standard at its threshold, an aggregate of exactly 0.95
C5_Witness ==
    /\ Returned
    /\ compliance.critical_failures = <<>>
    /\ \E id \in Measured(results) :
          /\ standards[id].critical
          /\ Lookup(results, id) = QInt(standards[id].threshold)
    /\ QEq(compliance.overall_score, QInt(95))
    /\ compliance.status = "compliant"

\* a mapping of unknown ids only
C5_WitnessUnknownOnly ==
    /\ Returned
    /\ results # <<>>
    /\ Measured(results) = {}
    /\ compliance.status = "non_compliant"

(***************************************************************************)
(* Properties of the transformer and the problem detector                  *)
(***************************************************************************)
\* the schema model the stored analysis result refers to
SchemaInfo == heap[session_schema_analysis.schema_analysis]

NamesOf(columns) == [i \in 1..Len(columns) |-> columns[i].name]

PairwiseDistinct(seq) ==
    \A i, j \in 1..Len(seq) : seq[i] = seq[j] => i = j

Transformed == runs >= 1

\* C6: every column of the input of make_schema_ndmo_compliant is in its
\* output under the same name and in the same relative order: the input's
\* names are a contiguous run of the output's, after at most one inserted
\* column, and the rest is appended behind them.
C6_ColumnsKeptInOrder ==
    Transformed =>
        LET input == NamesOf(before.columns)
            output == NamesOf(SchemaInfo.columns)
        IN \E k \in {0, 1} :
              /\ Len(output) >= Len(input) + k
              /\ SubSeq(output, k + 1, k + Len(input)) = input

\* a full input without a primary key: "id" in front, columns behind
C6_Witness ==
    /\ runs = 1
    /\ Len(before.columns) = MaxColumns
    /\ \A i \in 1..Len(before.columns) : ~Truthy(before.columns[i], "primary_key")
    /\ SchemaInfo.columns[1] = IdColumn
    /\ SubSeq(NamesOf(SchemaInfo.columns), 2, 1 + MaxColumns) = NamesOf(before.columns)
    /\ Len(SchemaInfo.columns) > 1 + MaxColumns

\* C7: a run of make_schema_ndmo_compliant on the output of an earlier run
\* leaves the list of column names as it was, and a model with a
\* primary_key column named "id" has as many "id" columns after a run as
\* before it.
C7_RerunAddsNoColumn ==
    /\ runs >= 2 => NamesOf(SchemaInfo.columns) = NamesOf(before.columns)
    /\ ( /\ Transformed
         /\ \E i \in 1..Len(before.columns) :
               /\ before.columns[i].name = S_id
               /\ Truthy(before.columns[i], "primary_key") )
          => Cardinality({i \in 1..Len(SchemaInfo.columns) :
                             SchemaInfo.columns[i].name = S_id})
             = Cardinality({i \in 1..Len(before.columns) :
                               before.columns[i].name = S_id})

\* a second run on a model the first run gave "id" and mandated columns
C7_Witness ==
    /\ runs = 2
    /\ Len(SchemaInfo.columns) > MaxColumns + 1
    /\ SchemaInfo.columns[1].name = S_id
    /\ Truthy(SchemaInfo.columns[1], "primary_key")
    /\ NamesOf(SchemaInfo.columns) = NamesOf(before.columns)

\* C8: when the column names of the input of make_schema_ndmo_compliant
\* are pairwise distinct, so are the column names of its output.
C8_NamesStayUnique ==
    (Transformed /\ PairwiseDistinct(NamesOf(before.columns)))
        => PairwiseDistinct(NamesOf(SchemaInfo.columns))

\* C9: after make_schema_ndmo_compliant the model that was passed in, which
\* the caller kept as the original, is what it was before the call.
C9_InputUnchanged ==
    Transformed =>
        LET original == heap[session_original_schema.schema_analysis]
        IN /\ original.columns = before.columns
           /\ original.business_rules = before.business_rules
           /\ ("ndmo_compliant" \in DOMAIN original)
                 <=> ("ndmo_compliant" \in DOMAIN before)
           /\ ("compliance_improvements" \in DOMAIN original)
                 <=> ("compliance_improvements" \in DOMAIN before)

Analyzed == "critical_problems" \in DOMAIN problem_analysis

ReportedIds ==
    LET reported == problem_analysis.critical_problems
                    \o problem_analysis.major_problems
                    \o problem_analysis.minor_problems
    IN [i \in 1..Len(reported) |-> reported[i].id]

\* C10: analyze_schema_problems reports DG001 in critical_problems exactly
\* once when no column of the schema has primary_key = true and not at all
\* when one has, and no problem id occurs twice in the three problem lists
\* or in priority_actions.
C10_OneMissingPrimaryKeyProblem ==
    Analyzed =>
        LET critical == problem_analysis.critical_problems
            has_primary_key ==
                \E i \in 1..Len(analyzed.columns) :
                    Truthy(analyzed.columns[i], "primary_key")
        IN /\ Cardinality({i \in 1..Len(critical) : critical[i].id = "DG001"})
                = IF has_primary_key THEN 0 ELSE 1
           /\ PairwiseDistinct(ReportedIds)
           /\ PairwiseDistinct([i \in 1..Len(problem_analysis.priority_actions) |->
                                   problem_analysis.priority_actions[i].problem_id])

\* a full schema without a primary key: DG001 once, among other problems
C10_Witness ==
    /\ Analyzed
    /\ Len(analyzed.columns) = MaxColumns
    /\ \A i \in 1..Len(analyzed.columns) : ~Truthy(analyzed.columns[i], "primary_key")
    /\ problem_analysis.critical_problems[1].id = "DG001"
    /\ Len(ReportedIds) > MaxColumns

(***************************************************************************)
(* pandas values (smart_data_processor.py, smart_schema_analyzer.py).      *)
(*                                                                         *)
(* A cell of a Series is a record [kind, str, num]: kind "null" is a       *)
(* missing value (NaN, None, NaT), "str" a string (str holds its           *)
(* characters), "num" a finite number (num holds it, an exact quotient     *)
(* in units), "inf" and "ninf" the two infinities, "bool" a boolean (num   *)
(* is 1 or 0) and "date" a timestamp (str holds it as yyyy-mm-dd).  A      *)
(* Series is [name, dtype, values]; a DataFrame is a sequence of Series    *)
(* of one length.  A metric is a quotient in units; [num |-> 0, den |-> 0] *)
(* is the NaN that numpy answers for 0/0.                                  *)
(***************************************************************************)
Cell(kind, str, num) == [kind |-> kind, str |-> str, num |-> num]

Null == Cell("null", <<>>, Quot(0, 1))
Str(s) == Cell("str", s, Quot(0, 1))
Num(q) == Cell("num", <<>>, q)
Whole(n) == Num(Quot(n, 1))
PosInf == Cell("inf", <<>>, Quot(0, 1))
NegInf == Cell("ninf", <<>>, Quot(0, 1))
Bool(b) == Cell("bool", <<>>, Quot(IF b THEN 1 ELSE 0, 1))
Date(s) == Cell("date", s, Quot(0, 1))

Series(name, dtype, values) == [name |-> name, dtype |-> dtype, values |-> values]

NaN == [num |-> 0, den |-> 0]
IsNaN(q) == q.den = 0

\* Series.isnull(), numpy.isinf on one cell
isnull(c) == c.kind = "null"
isinf(c) == c.kind \in {"inf", "ninf"}

\* the dtypes the source calls numeric: dtype in ['int64', 'float64']
IsNumericDtype(dtype) == dtype \in {"int64", "float64"}

\* Series.map
MapCells(values, F(_)) == [i \in 1..Len(values) |-> F(values[i])]

\* Series.isnull().sum(), Series.nunique(), Series.duplicated().any()
null_count(values) == Cardinality({i \in 1..Len(values) : isnull(values[i])})
nunique(values) ==
    Cardinality({values[i] : i \in {j \in 1..Len(values) : ~isnull(values[j])}})
any_duplicated(values) ==
    \E i, j \in 1..Len(values) : i < j /\ values[i] = values[j]

\* Series.dropna()
dropna(values) == SelectSeq(values, LAMBDA c : ~isnull(c))

\* the characters of the model in the order of their code points
CodePoints ==
    << " ", "%", "+", "-", ".", "/" >>
    \o << "0", "1", "2", "3", "4", "5", "6", "7", "8", "9" >>
    \o << ":", "@" >> \o UpperLetters \o << "_" >> \o LowerLetters

Ord(c) == CHOOSE i \in 1..Len(CodePoints) : CodePoints[i] = c

\* a < b for two str
RECURSIVE StrLess(_, _)
StrLess(a, b) ==
    IF b = <<>> THEN FALSE
    ELSE IF a = <<>> THEN TRUE
    ELSE IF Head(a) = Head(b) THEN StrLess(Tail(a), Tail(b))
    ELSE Ord(Head(a)) < Ord(Head(b))

UpperOf == [c \in LowerSet |->
               UpperLetters[CHOOSE i \in 1..26 : LowerLetters[i] = c]]
UpperChar(c) == IF c \in DOMAIN UpperOf THEN UpperOf[c] ELSE c
IsLetter(c) == c \in DOMAIN UpperOf \/ c \in DOMAIN LowerOf

\* str.strip()
RECURSIVE lstrip(_)
lstrip(s) == IF s # <<>> /\ Head(s) = " " THEN lstrip(Tail(s)) ELSE s
RECURSIVE rstrip(_)
rstrip(s) ==
    IF s # <<>> /\ s[Len(s)] = " " THEN rstrip(SubSeq(s, 1, Len(s) - 1)) ELSE s
strip(s) == rstrip(lstrip(s))

\* str.title(): a letter after a letter is lowered, any other letter raised
title(s) ==
    [i \in 1..Len(s) |->
        IF ~IsLetter(s[i]) THEN s[i]
        ELSE IF i > 1 /\ IsLetter(s[i - 1]) THEN LowerChar(s[i])
        ELSE UpperChar(s[i])]

DigitChars == << "0", "1", "2", "3", "4", "5", "6", "7", "8", "9" >>

\* str(n) for an integer n
RECURSIVE FormatNat(_)
FormatNat(n) ==
    IF n < 10 THEN << DigitChars[n + 1] >>
    ELSE FormatNat(n \div 10) \o << DigitChars[(n % 10) + 1] >>
FormatInt(n) == IF n < 0 THEN << "-" >> \o FormatNat(-n) ELSE FormatNat(n)

S_nan == << "n", "a", "n" >>
S_inf == << "i", "n", "f" >>
S_True == << "T", "r", "u", "e" >>
S_False == << "F", "a", "l", "s", "e" >>
S_NA == << "N", "/", "A" >>
S_Unknown == << "U", "n", "k", "n", "o", "w", "n" >>
S_overall == << "o", "v", "e", "r", "a", "l", "l" >>

\* str(x) of a cell of a Series of the dtype; the floats that reach it are
\* whole numbers or halves
StrOf(c, dtype) ==
    CASE c.kind = "str" -> c.str
      [] c.kind = "date" -> c.str
      [] c.kind = "null" -> S_nan
      [] c.kind = "inf" -> S_inf
      [] c.kind = "ninf" -> << "-" >> \o S_inf
      [] c.kind = "bool" -> IF c.num.num = 1 THEN S_True ELSE S_False
      [] c.kind = "num" ->
            IF dtype = "float64"
            THEN IF c.num.den = 1 THEN FormatInt(c.num.num) \o << ".", "0" >>
                 ELSE FormatInt(c.num.num \div c.num.den) \o << ".", "5" >>
            ELSE FormatInt(c.num.num)

\* the order of float values: -inf < finite < inf
NumLess(a, b) ==
    CASE a.kind = "ninf" -> b.kind # "ninf"
      [] a.kind = "inf" -> FALSE
      [] OTHER -> \/ b.kind = "inf"
                  \/ b.kind \notin {"ninf", "inf"} /\ QLess(a.num, b.num)

\* (a + b) / 2 in floating point
MidPoint(a, b) ==
    CASE a.kind = "inf" /\ b.kind = "ninf" -> Null
      [] a.kind = "ninf" /\ b.kind = "inf" -> Null
      [] a.kind \in {"inf", "ninf"} -> a
      [] b.kind \in {"inf", "ninf"} -> b
      [] OTHER -> Num(QDivInt(QAdd(a.num, b.num), 2))

\* the k-th smallest of a non-empty list of numbers
KthSmallest(values, k) ==
    LET at == CHOOSE i \in 1..Len(values) :
                 /\ Cardinality({j \in 1..Len(values) : NumLess(values[j], values[i])}) < k
                 /\ k <= Cardinality({j \in 1..Len(values) : ~NumLess(values[i], values[j])})
    IN values[at]

\* Series.median(): skips the missing values, NaN when nothing is left
median(values) ==
    LET present == dropna(values)
        n == Len(present)
    IN IF n = 0 THEN Null
       ELSE IF n % 2 = 1 THEN KthSmallest(present, (n + 1) \div 2)
       ELSE MidPoint(KthSmallest(present, n \div 2), KthSmallest(present, n \div 2 + 1))

\* Series.mode(): the most frequent values, missing ones skipped, sorted;
\* answers the first one, or null for an empty result
CountCell(values, c) == Cardinality({i \in 1..Len(values) : values[i] = c})

first_mode(values) ==
    LET present == dropna(values)
        most == {c \in {present[i] : i \in 1..Len(present)} :
                    \A i \in 1..Len(present) :
                        CountCell(present, present[i]) <= CountCell(present, c)}
    IN IF most = {} THEN Null
       ELSE CHOOSE c \in most : \A d \in most : d = c \/ StrLess(c.str, d.str)

\* Series.fillna(value)
fillna(values, value) == MapCells(values, LAMBDA c : IF isnull(c) THEN value ELSE c)

\* numpy.mean of a list of metrics; NaN as soon as one of them is
RECURSIVE SumMetrics(_)
SumMetrics(qs) == IF qs = <<>> THEN Quot(0, 1) ELSE QAdd(Head(qs), SumMetrics(Tail(qs)))

mean(qs) ==
    IF \E i \in 1..Len(qs) : IsNaN(qs[i]) THEN NaN
    ELSE QDivInt(SumMetrics(qs), Len(qs))

\* n / d of two numpy integers: NaN for 0/0
NumpyDivide(n, d) == IF d = 0 THEN NaN ELSE Quot(n, d)

\* a dict with str keys as the list of its items: d[key] = val
SetItem(items, key, val) ==
    IF \E i \in 1..Len(items) : items[i].key = key
    THEN [i \in 1..Len(items) |->
             IF items[i].key = key THEN [key |-> key, val |-> val] ELSE items[i]]
    ELSE Append(items, [key |-> key, val |-> val])

ItemValues(items) == [i \in 1..Len(items) |-> items[i].val]

(***************************************************************************)
(* smart_data_processor.py : SmartDataProcessor                            *)
(***************************************************************************)
\* the score below which a column is improved (lines 324 and 354), as a
\* number of hundredths
ImproveBelow == 95

\* line 385: fewer distinct values than this is "likely categorical"
CategoricalLimit == 50

BelowImproveLimit(score) == score.num * 100 < ImproveBelow * score.den

\* the characters Python's int() reads in the model: decimal digits
IsDigits(s) == s # <<>> /\ \A i \in 1..Len(s) : s[i] \in Digits

RECURSIVE ParseNat(_)
ParseNat(s) ==
    IF s = <<>> THEN 0
    ELSE 10 * ParseNat(SubSeq(s, 1, Len(s) - 1))
         + (CHOOSE d \in 0..9 : DigitChars[d + 1] = s[Len(s)])

\* pandas.to_numeric(errors='coerce') on one cell: surrounding blanks are
\* ignored, a whole number with an optional sign is read, "inf" is infinity
\* and every other string becomes missing
ToNumeric(c) ==
    CASE c.kind = "str" ->
            LET s == strip(c.str)
            IN IF IsDigits(s) THEN Whole(ParseNat(s))
               ELSE IF Len(s) > 1 /\ s[1] = "-" /\ IsDigits(Tail(s))
                    THEN Whole(0 - ParseNat(Tail(s)))
               ELSE IF Len(s) > 1 /\ s[1] = "+" /\ IsDigits(Tail(s))
                    THEN Whole(ParseNat(Tail(s)))
               ELSE IF lower(s) = S_inf THEN PosInf
               ELSE Null
      [] c.kind = "bool" -> Num(c.num)
      [] c.kind = "date" -> Null
      [] OTHER -> c

\* a date written yyyy-mm-dd
IsIsoDate(s) ==
    /\ Len(s) = 10
    /\ s[5] = "-" /\ s[8] = "-"
    /\ IsDigits(SubSeq(s, 1, 4)) /\ IsDigits(SubSeq(s, 6, 7)) /\ IsDigits(SubSeq(s, 9, 10))
    /\ ParseNat(SubSeq(s, 6, 7)) \in 1..12
    /\ ParseNat(SubSeq(s, 9, 10)) \in 1..28

\* pandas.to_datetime(errors='coerce') on one cell of a column of strings:
\* a yyyy-mm-dd string is read, any other string of the model is not a date
ToDatetime(c) ==
    CASE c.kind = "str" -> IF IsIsoDate(strip(c.str)) THEN Date(strip(c.str)) ELSE Null
      [] c.kind = "date" -> c
      [] OTHER -> Null

\* bool(x), which Series.astype('bool') applies to every cell: only the
\* empty string and zero are False; NaN is True
ToBool(c) ==
    CASE c.kind = "str" -> Bool(c.str # <<>>)
      [] c.kind = "num" -> Bool(c.num.num # 0)
      [] c.kind = "bool" -> c
      [] OTHER -> Bool(TRUE)

\* the dtype pandas.to_numeric answers with
NumericDtype(values) ==
    IF \A i \in 1..Len(values) : values[i].kind = "num" /\ values[i].num.den = 1
    THEN "int64" ELSE "float64"

\* lines 135-150
_convert_to_target_type(column_data, target_type) ==
    CASE target_type = "numeric" ->
            LET values == MapCells(column_data.values, ToNumeric)
            IN Series(column_data.name,
                      IF column_data.dtype = "object"
                      THEN NumericDtype(values) ELSE column_data.dtype,
                      values)
      [] target_type = "datetime" ->
            Series(column_data.name, "datetime64[ns]",
                   MapCells(column_data.values, ToDatetime))
      [] target_type = "boolean" ->
            Series(column_data.name, "bool", MapCells(column_data.values, ToBool))
      [] target_type = "text" ->
            Series(column_data.name, "object",
                   MapCells(column_data.values,
                            LAMBDA c : Str(StrOf(c, column_data.dtype))))
      [] OTHER -> column_data

\* line 181, on one cell x of an object column
ApplyLength(c, dtype, min_len, has_max, max_len) ==
    LET s == StrOf(c, dtype)
    IN IF has_max /\ Len(s) > max_len THEN Str(SubSeq(s, 1, max_len))
       ELSE IF Len(s) < min_len
            THEN Str(s \o [i \in 1..(min_len - Len(s)) |-> " "])
       ELSE Str(s)

\* Series.clip(lower, upper) on one cell
Clip(c, has_min, min_val, has_max, max_val) ==
    IF isnull(c) THEN c
    ELSE IF has_min /\ NumLess(c, Whole(min_val)) THEN Whole(min_val)
    ELSE IF has_max /\ NumLess(Whole(max_val), c) THEN Whole(max_val)
    ELSE c

\* lines 152-205
_apply_constraints(column_data, constraints) ==
    LET required ==
            IF Get(constraints, "required", FALSE) = TRUE
            THEN IF column_data.dtype = "object"
                 THEN [column_data EXCEPT !.values = fillna(@, Str(S_NA))]
                 ELSE IF IsNumericDtype(column_data.dtype)
                 THEN [column_data EXCEPT !.values = fillna(@, Whole(0))]
                 ELSE column_data
            ELSE column_data
        lengths ==
            IF ("min_length" \in DOMAIN constraints \/ "max_length" \in DOMAIN constraints)
               /\ required.dtype = "object"
            THEN [required EXCEPT !.values =
                     MapCells(@, LAMBDA c :
                         ApplyLength(c, "object",
                                     Get(constraints, "min_length", 0),
                                     "max_length" \in DOMAIN constraints,
                                     Get(constraints, "max_length", 0)))]
            ELSE required
        clipped ==
            IF ("min_value" \in DOMAIN constraints \/ "max_value" \in DOMAIN constraints)
               /\ IsNumericDtype(lengths.dtype)
            THEN [lengths EXCEPT !.values =
                     MapCells(@, LAMBDA c :
                         Clip(c, "min_value" \in DOMAIN constraints,
                              Get(constraints, "min_value", 0),
                              "max_value" \in DOMAIN constraints,
                              Get(constraints, "max_value", 0)))]
            ELSE lengths
    IN IF Get(constraints, "allowed_values", <<>>) # <<>>
       THEN [clipped EXCEPT !.values =
                MapCells(@, LAMBDA c :
                    IF InList(c, constraints.allowed_values) THEN c ELSE Null)]
       ELSE clipped

\* lines 207-222: every value that occurs more than once gets "_<n>"
\* appended, n counting the rewritten rows from 1
_ensure_primary_key_uniqueness(column_data) ==
    LET values == column_data.values
        duplicates == {i \in 1..Len(values) :
                          \E j \in 1..Len(values) : j # i /\ values[j] = values[i]}
        unique_counter(i) == Cardinality({j \in duplicates : j <= i})
    IN IF any_duplicated(values)
       THEN Series(column_data.name, "object",
                   [i \in 1..Len(values) |->
                       IF i \in duplicates
                       THEN Str(StrOf(values[i], column_data.dtype)
                                \o << "_" >> \o FormatInt(unique_counter(i)))
                       ELSE values[i]])
       ELSE column_data

\* lines 111-133
_process_column_according_to_schema(column_data, column_info) ==
    LET target_data_type == Get(column_info, "data_type", "unknown")
        typed == IF target_data_type # "unknown"
                 THEN _convert_to_target_type(column_data, target_data_type)
                 ELSE column_data
        constrained == _apply_constraints(typed, Get(column_info, "constraints", EmptyDict))
    IN IF Get(column_info, "primary_key", FALSE) = TRUE
       THEN _ensure_primary_key_uniqueness(constrained)
       ELSE constrained

\* lines 245-250
IsWordChar(c) == IsLetter(c) \/ c \in Digits \/ c = "_"

RECURSIVE CollapseBlanks(_)
CollapseBlanks(s) ==
    IF s = <<>> THEN <<>>
    ELSE IF Head(s) = " "
         THEN << "_" >> \o CollapseBlanks(lstrip(s))
         ELSE << Head(s) >> \o CollapseBlanks(Tail(s))

_clean_column_name(column_name) ==
    lower(CollapseBlanks(SelectSeq(column_name, LAMBDA c : IsWordChar(c) \/ c = " ")))

\* DataFrame.dropna(how='all'): the rows that keep a value
KeptRows(data_df) ==
    IF data_df = <<>> THEN {}
    ELSE {r \in 1..Len(data_df[1].values) :
             \E k \in 1..Len(data_df) : ~isnull(data_df[k].values[r])}

RECURSIVE TakeRows(_, _, _)
TakeRows(values, rows, r) ==
    IF r > Len(values) THEN <<>>
    ELSE (IF r \in rows THEN << values[r] >> ELSE <<>>) \o TakeRows(values, rows, r + 1)

\* lines 224-243
_apply_basic_processing(data_df) ==
    LET filled ==
            [k \in 1..Len(data_df) |->
                Series(_clean_column_name(data_df[k].name), data_df[k].dtype,
                       IF data_df[k].dtype = "object"
                       THEN fillna(data_df[k].values, Str(S_NA))
                       ELSE IF IsNumericDtype(data_df[k].dtype)
                       THEN fillna(data_df[k].values, Whole(0))
                       ELSE data_df[k].values)]
    IN [k \in 1..Len(filled) |->
           [filled[k] EXCEPT !.values = TakeRows(@, KeptRows(filled), 1)]]

\* a falsy schema_analysis (None) is the empty dict
RECURSIVE ProcessColumns(_, _, _)
ProcessColumns(processed_df, columns_info, i) ==
    IF i > Len(columns_info) THEN processed_df
    ELSE ProcessColumns(
             [k \in 1..Len(processed_df) |->
                 IF processed_df[k].name = columns_info[i].name
                 THEN _process_column_according_to_schema(processed_df[k], columns_info[i])
                 ELSE processed_df[k]],
             columns_info, i + 1)

\* lines 88-109
_process_data_according_to_schema(data_df, schema_analysis) ==
    IF "schema_analysis" \notin DOMAIN schema_analysis
    THEN _apply_basic_processing(data_df)
    ELSE ProcessColumns(data_df,
                        Get(schema_analysis.schema_analysis, "columns", <<>>), 1)

\* lines 266-286, for one column: its completeness, uniqueness and validity
ColumnMetrics(column) ==
    LET total_count == Len(column.values)
        empty_count == Cardinality({i \in 1..total_count : column.values[i] = Str(<<>>)})
        inf_count == Cardinality({i \in 1..total_count : isinf(column.values[i])})
        Ratio(n) == IF total_count > 0 THEN Quot(n, total_count) ELSE Quot(0, 1)
    IN [ completeness |-> Ratio(total_count - null_count(column.values)),
         uniqueness |-> Ratio(nunique(column.values)),
         validity |-> IF column.dtype = "object"
                      THEN Ratio(total_count - empty_count)
                      ELSE Ratio(total_count - inf_count) ]

RECURSIVE MetricItems(_, _, _, _)
MetricItems(data_df, metric_type, k, items) ==
    IF k > Len(data_df) THEN items
    ELSE MetricItems(data_df, metric_type, k + 1,
                     SetItem(items, data_df[k].name, ColumnMetrics(data_df[k])[metric_type]))

\* lines 289-291: the "overall" entry, when the dict has an entry
WithOverall(items) ==
    IF items # <<>> THEN SetItem(items, S_overall, mean(ItemValues(items))) ELSE items

OverallOf(items) ==
    SelectSeq(items, LAMBDA item : item.key = S_overall)

\* lines 252-297
_calculate_quality_metrics(data_df) ==
    LET completeness == WithOverall(MetricItems(data_df, "completeness", 1, <<>>))
        uniqueness == WithOverall(MetricItems(data_df, "uniqueness", 1, <<>>))
        validity == WithOverall(MetricItems(data_df, "validity", 1, <<>>))
        overall_scores == ItemValues(OverallOf(completeness) \o OverallOf(uniqueness)
                                     \o OverallOf(validity))
    IN [ completeness |-> completeness, accuracy |-> <<>>, consistency |-> <<>>,
         uniqueness |-> uniqueness, validity |-> validity,
         overall_score |-> IF overall_scores # <<>> THEN mean(overall_scores)
                           ELSE Quot(0, 1) ]

LogEntry(kind, column, count) == [kind |-> kind, column |-> column, count |-> count]

\* the columns of the name in a frame: df[column] = values
SetColumn(df, column, values) ==
    [k \in 1..Len(df) |->
        IF df[k].name = column THEN [df[k] EXCEPT !.values = values] ELSE df[k]]

ColumnOf(df, column) == df[CHOOSE k \in 1..Len(df) : df[k].name = column]

\* lines 320-342, for one item of completeness_metrics; st is [df, log]
ImproveCompletenessOf(st, item) ==
    IF item.key = S_overall \/ ~BelowImproveLimit(item.val) THEN st
    ELSE LET column_data == ColumnOf(st.df, item.key)
             nulls == null_count(column_data.values)
             most_frequent == first_mode(column_data.values)
         IN IF nulls = 0 THEN st
            ELSE [ df |->
                     IF column_data.dtype = "object"
                     THEN SetColumn(st.df, item.key,
                              fillna(column_data.values,
                                     IF ~isnull(most_frequent) THEN most_frequent
                                     ELSE Str(S_Unknown)))
                     ELSE IF IsNumericDtype(column_data.dtype)
                     THEN SetColumn(st.df, item.key,
                              fillna(column_data.values, median(column_data.values)))
                     ELSE st.df,
                   log |-> Append(st.log, LogEntry("completeness", item.key, nulls)) ]

\* lines 350-370, for one item of validity_metrics
ImproveValidityOf(st, item) ==
    IF item.key = S_overall \/ ~BelowImproveLimit(item.val) THEN st
    ELSE LET column_data == ColumnOf(st.df, item.key)
             values == column_data.values
             empty_mask == {i \in 1..Len(values) : values[i] = Str(<<>>) \/ isnull(values[i])}
             inf_mask == {i \in 1..Len(values) : isinf(values[i])}
             rest == SelectSeq(values, LAMBDA c : ~isinf(c))
         IN IF column_data.dtype = "object"
            THEN IF empty_mask # {}
                 THEN [ df |-> SetColumn(st.df, item.key,
                                  [i \in 1..Len(values) |->
                                      IF i \in empty_mask THEN Str(S_NA) ELSE values[i]]),
                        log |-> Append(st.log, LogEntry("validity", item.key, 0)) ]
                 ELSE st
            ELSE IF IsNumericDtype(column_data.dtype) /\ inf_mask # {}
            THEN [ df |-> SetColumn(st.df, item.key,
                             [i \in 1..Len(values) |->
                                 IF i \in inf_mask THEN median(rest) ELSE values[i]]),
                   log |-> Append(st.log, LogEntry("validity", item.key, 0)) ]
            ELSE st

\* lines 316-344, the loop over completeness_metrics.items()
RECURSIVE _improve_completeness(_, _, _)
_improve_completeness(st, completeness_metrics, i) ==
    IF i > Len(completeness_metrics) THEN st
    ELSE _improve_completeness(ImproveCompletenessOf(st, completeness_metrics[i]),
                               completeness_metrics, i + 1)

\* lines 346-372, the loop over validity_metrics.items()
RECURSIVE _improve_validity(_, _, _)
_improve_validity(st, validity_metrics, i) ==
    IF i > Len(validity_metrics) THEN st
    ELSE _improve_validity(ImproveValidityOf(st, validity_metrics[i]),
                           validity_metrics, i + 1)

\* lines 374-388: nothing is logged
_improve_consistency(data_df) ==
    [k \in 1..Len(data_df) |->
        IF data_df[k].dtype = "object"
        THEN LET stripped == MapCells(data_df[k].values,
                                      LAMBDA c : Str(strip(StrOf(c, "object"))))
             IN [data_df[k] EXCEPT !.values =
                    IF nunique(stripped) < CategoricalLimit
                    THEN MapCells(stripped, LAMBDA c : Str(title(c.str)))
                    ELSE stripped]
        ELSE data_df[k]]

\* lines 299-314; answers the improved frame and the log
_apply_quality_improvements(data_df, quality_metrics, log) ==
    LET completed == _improve_completeness([df |-> data_df, log |-> log],
                                           quality_metrics.completeness, 1)
        valid == _improve_validity(completed, quality_metrics.validity, 1)
    IN [df |-> _improve_consistency(valid.df), log |-> valid.log]

RECURSIVE NotNullTotal(_)
NotNullTotal(data_df) ==
    IF data_df = <<>> THEN 0
    ELSE Len(Head(data_df).values) - null_count(Head(data_df).values)
         + NotNullTotal(Tail(data_df))

\* lines 438-458: the results dict of _assess_ndmo_compliance, in units.
\* The counts are numpy integers, whose 0/0 is NaN.
NdmoMeasurements(data_df) ==
    LET rows == IF data_df = <<>> THEN 0 ELSE Len(data_df[1].values)
        has_unique_column == \E k \in 1..Len(data_df) : nunique(data_df[k].values) = rows
        validity_scores ==
            [k \in 1..Len(data_df) |->
                NumpyDivide(
                    IF data_df[k].dtype = "object"
                    THEN Cardinality({i \in 1..rows : data_df[k].values[i] # Str(<<>>)})
                    ELSE Cardinality({i \in 1..rows : ~isinf(data_df[k].values[i])}),
                    rows)]
    IN << [id |-> "DQ001",
           score |-> NumpyDivide(NotNullTotal(data_df), rows * Len(data_df))],
          [id |-> "DG001",
           score |-> IF has_unique_column THEN Quot(1, 1) ELSE Quot(0, 1)],
          [id |-> "DQ005",
           score |-> IF validity_scores # <<>> THEN mean(validity_scores)
                     ELSE Quot(0, 1)] >>

\* lines 460-463: calculate_compliance_score on the measurements.  A NaN
\* measurement fails no comparison, so it adds no critical failure and no
\* recommendation; it makes the sums it enters NaN, and a NaN overall score
\* is below both status thresholds.
_assess_ndmo_compliance(data_df) ==
    LET measured == NdmoMeasurements(data_df)
        defined == SelectSeq(measured, LAMBDA e : ~IsNaN(e.score))
        scored == calculate_compliance_score(
                      [i \in 1..Len(defined) |->
                          [id |-> defined[i].id,
                           score |-> QTimesInt(defined[i].score, 100)]])
        undefined == {measured[i].id : i \in {j \in 1..Len(measured) : IsNaN(measured[j].score)}}
    IN IF undefined = {} THEN scored
       ELSE [scored EXCEPT
                !.overall_score = NaN,
                !.status = "non_compliant",
                !.category_scores =
                    [c \in DOMAIN scored.category_scores |->
                        IF \E id \in undefined : standards[id].category = c
                        THEN NaN ELSE scored.category_scores[c]]]

(***************************************************************************)
(* The data processor as a state machine: one processor object is given a  *)
(* data file and processes it, possibly more than once.  The tables have   *)
(* one or two columns of strings or of numbers, as read_excel loads them;  *)
(* the schema analysis that comes with one names at most one of them.      *)
(* Left out: columns of other dtypes, a primary_key or allowed_values on a *)
(* column of numbers, and the schema_compliance entry of the result.       *)
(***************************************************************************)
\* largest number of rows of a data table
MaxRows == 3

\* largest number of process_data_file calls on one processor
MaxCalls == 2

S_a == << "a" >>
S_A == << "A" >>
S_a_1 == << "a", "_", "1" >>
S_blank_a == << " ", "a" >>

\* the cells of a column of strings: a value, the same in another case, one
\* that ends in a suffix, one with a blank in front, the empty string, missing
TextCells == { Str(S_a), Str(S_A), Str(S_a_1), Str(S_blank_a), Null }

\* the cells of a column of numbers
NumberCells == { Whole(1), Whole(2), PosInf, Null }

RECURSIVE CellLists(_, _)
CellLists(cells, n) ==
    IF n = 0 THEN {<<>>}
    ELSE CellLists(cells, n - 1)
         \cup { Append(vs, c) : vs \in CellLists(cells, n - 1), c \in cells }

\* read_excel: a column of numbers with a missing or infinite one is float64
NumberDtype(values) ==
    IF \A i \in 1..Len(values) : values[i].kind = "num" THEN "int64" ELSE "float64"

TextColumns == { Series(S_id, "object", vs) : vs \in CellLists(TextCells, MaxRows) }

NumberColumns ==
    { Series(S_amount, NumberDtype(vs), vs) :
          vs \in CellLists(NumberCells, MaxRows) \ {<<>>} }

\* a column dict of a schema analysis, as far as the processor reads it
ColumnInfo(name, data_type, primary_key, constraints) ==
    [ name |-> name, data_type |-> data_type, primary_key |-> primary_key,
      constraints |-> constraints ]

SchemaAnalysisOf(column_info) ==
    [ schema_analysis |-> [ columns |-> << column_info >> ] ]

\* no schema file, a schema that names another column, and schemas that
\* name the column of strings
TextSchemas ==
    { EmptyDict,
      SchemaAnalysisOf(ColumnInfo(S_amount, "numeric", FALSE, [required |-> TRUE])),
      SchemaAnalysisOf(ColumnInfo(S_id, "text", TRUE, EmptyDict)),
      SchemaAnalysisOf(ColumnInfo(S_id, "unknown", TRUE, [required |-> TRUE])),
      SchemaAnalysisOf(ColumnInfo(S_id, "text", FALSE,
          [required |-> TRUE, min_length |-> 1, max_length |-> 2,
           allowed_values |-> << Str(S_a), Str(S_A) >>])),
      SchemaAnalysisOf(ColumnInfo(S_id, "numeric", FALSE, [required |-> FALSE])),
      SchemaAnalysisOf(ColumnInfo(S_id, "boolean", FALSE, EmptyDict)) }

\* the same for the column of numbers
NumberSchemas ==
    { EmptyDict,
      SchemaAnalysisOf(ColumnInfo(S_id, "text", TRUE, EmptyDict)),
      SchemaAnalysisOf(ColumnInfo(S_amount, "numeric", FALSE,
          [required |-> TRUE, min_value |-> 2, max_value |-> 2])),
      SchemaAnalysisOf(ColumnInfo(S_amount, "unknown", FALSE, [required |-> FALSE])),
      SchemaAnalysisOf(ColumnInfo(S_amount, "text", FALSE, [required |-> TRUE])) }

\* tables of two columns have no row or one
TwoColumnTables ==
    { << t, n >> : t \in { c \in TextColumns : Len(c.values) <= 1 },
                   n \in { c \in NumberColumns : Len(c.values) <= 1 } }

DataFiles ==
    { [data |-> << c >>, schema |-> s] : c \in TextColumns, s \in TextSchemas }
    \cup { [data |-> << c >>, schema |-> s] : c \in NumberColumns, s \in NumberSchemas }
    \cup { [data |-> t, schema |-> EmptyDict] :
              t \in { u \in TwoColumnTables : Len(u[1].values) = Len(u[2].values) } }

InitProcessor ==
    /\ ScorerIdle /\ SchemaIdle /\ CoercionIdle /\ AnalyzerIdle
    /\ data_file \in DataFiles
    /\ improvement_log = <<>>
    /\ processing_results = EmptyDict
    /\ improved_data = <<>>
    /\ calls = <<>>

RowsOf(data_df) == IF data_df = <<>> THEN 0 ELSE Len(data_df[1].values)

\* lines 34-86.  improvements_applied is the list object improvement_log
\* itself, kept here as a reference to it.  calls records, per call, the
\* dict returned, the frame before the improvement pass, what the call
\* appended to the log and the measurements of _assess_ndmo_compliance.
ProcessDataFile ==
    /\ Len(calls) < MaxCalls
    /\ \E processed_data \in {_process_data_according_to_schema(data_file.data,
                                                               data_file.schema)} :
       \E quality_metrics \in {_calculate_quality_metrics(processed_data)} :
       \E improved \in {_apply_quality_improvements(processed_data, quality_metrics,
                                                   improvement_log)} :
       \E returned \in {
            [ original_data |-> [ rows |-> RowsOf(data_file.data),
                                  columns |-> Len(data_file.data),
                                  quality_metrics |-> quality_metrics ],
              processed_data |-> [ rows |-> RowsOf(processed_data),
                                   columns |-> Len(processed_data),
                                   quality_metrics |-> _calculate_quality_metrics(improved.df) ],
              improvements_applied |-> "improvement_log",
              ndmo_compliance |-> _assess_ndmo_compliance(improved.df) ] } :
          /\ improvement_log' = improved.log
          /\ improved_data' = improved.df
          /\ processing_results' = returned
          /\ calls' = Append(calls,
                 [ returned |-> returned,
                   processed |-> processed_data,
                   appended |-> SubSeq(improved.log, Len(improvement_log) + 1,
                                       Len(improved.log)),
                   measurements |-> NdmoMeasurements(improved.df) ])
    /\ UNCHANGED data_file
    /\ UNCHANGED <<scorer_vars, schema_vars, coercion_vars, analyzer_vars>>

NextProcessor == ProcessDataFile

SpecProcessor == InitProcessor /\ [][NextProcessor]_vars

(***************************************************************************)
(* Properties of the data processor                                        *)
(***************************************************************************)
Processed == calls # <<>>

LastCall == calls[Len(calls)]

\* the names of the schema columns with primary_key = true
PrimaryKeyNames ==
    IF "schema_analysis" \in DOMAIN data_file.schema
    THEN LET columns == data_file.schema.schema_analysis.columns
         IN { columns[i].name :
                 i \in { j \in 1..Len(columns) : Truthy(columns[j], "primary_key") } }
    ELSE {}

\* C11: after process_data_file, every column of the processed data whose
\* name is that of a schema column with primary_key = true has as many
\* distinct values as the table has rows.
C11_PrimaryKeyColumnsDistinct ==
    Processed =>
        \A k \in 1..Len(improved_data) :
            improved_data[k].name \in PrimaryKeyNames
                => nunique(improved_data[k].values) = Len(improved_data[k].values)

\* the improved list a dict refers to
ImprovementsApplied(returned) ==
    IF returned.improvements_applied = "improvement_log" THEN improvement_log ELSE <<>>

\* C12: a column whose completeness before the improvement pass is below
\* 0.95 has, after _apply_quality_improvements, a completeness that is not
\* lower.
C12_CompletenessNotLowered ==
    Processed =>
        LET completeness_before == LastCall.returned.original_data.quality_metrics.completeness
            completeness_after == LastCall.returned.processed_data.quality_metrics.completeness
        IN \A i \in 1..Len(completeness_before) :
              ( /\ completeness_before[i].key # S_overall
                /\ completeness_before[i].val.num * 100 < 95 * completeness_before[i].val.den )
                  => \E j \in 1..Len(completeness_after) :
                        /\ completeness_after[j].key = completeness_before[i].key
                        /\ QLeq(completeness_before[i].val, completeness_after[j].val)

IsZero(q) == q.den # 0 /\ q.num = 0

AllZero(quality_metrics) ==
    /\ IsZero(quality_metrics.overall_score)
    /\ \A metric_type \in {"completeness", "uniqueness", "validity"} :
          \A i \in 1..Len(quality_metrics[metric_type]) :
              IsZero(quality_metrics[metric_type][i].val)

\* C13: for a data table with zero rows every metric of
\* _calculate_quality_metrics, per column and overall, is 0, and so are the
\* DQ001 and DQ005 measurements of _assess_ndmo_compliance; none is NaN.
C13_ZeroRowMetricsAreZero ==
    (Processed /\ RowsOf(data_file.data) = 0) =>
        /\ AllZero(LastCall.returned.original_data.quality_metrics)
        /\ AllZero(LastCall.returned.processed_data.quality_metrics)
        /\ \A i \in 1..Len(LastCall.measurements) :
              LastCall.measurements[i].id \in {"DQ001", "DQ005"}
                  => IsZero(LastCall.measurements[i].score)

\* C14: the improvements_applied list of the dict each process_data_file
\* call returned holds the entries that call appended, and nothing else,
\* whatever calls came before or after it.
C14_ImprovementLogPerCall ==
    \A i \in 1..Len(calls) :
        ImprovementsApplied(calls[i].returned) = calls[i].appended

(***************************************************************************)
(* _convert_to_target_type on one column of strings                        *)
(***************************************************************************)
S_7 == << "7" >>
S_2020_01_02 == << "2", "0", "2", "0", "-", "0", "1", "-", "0", "2" >>

\* the cells of a column of an Excel sheet that holds text
CoercionCells == { Str(S_7), Str(S_a), Str(S_False), Str(S_2020_01_02), Null }

\* the target types of a schema column; the last one stands for the types
\* _convert_to_target_type has no branch for
TargetTypes == { "numeric", "datetime", "boolean", "text", "categorical" }

InitCoercion ==
    /\ ScorerIdle /\ SchemaIdle /\ ProcessorIdle /\ AnalyzerIdle
    /\ given_column \in { Series(S_id, "object", vs) : vs \in CellLists(CoercionCells, MaxRows) }
    /\ converted = EmptyDict

\* a column pandas.to_datetime reads the same way in every version: no cell
\* is a bare number, which some versions read as a day or a year
DatetimeInput(column_data) ==
    \A i \in 1..Len(column_data.values) :
        column_data.values[i].kind = "str" => ~IsDigits(strip(column_data.values[i].str))

\* one call of _convert_to_target_type; none of its branches raises on a
\* column of strings and missing values, so the except branch is not taken
ConvertToTargetType ==
    /\ \E target_type \in TargetTypes :
          /\ target_type = "datetime" => DatetimeInput(given_column)
          /\ converted' = [ target_type |-> target_type,
                         column |-> _convert_to_target_type(given_column, target_type) ]
    /\ UNCHANGED given_column
    /\ UNCHANGED <<scorer_vars, schema_vars, processor_vars, analyzer_vars>>

NextCoercion == ConvertToTargetType

SpecCoercion == InitCoercion /\ [][NextCoercion]_vars

\* the strings that spell a boolean
BooleanWords == { << "t", "r", "u", "e" >>, << "f", "a", "l", "s", "e" >> }

\* what a string is as a value of the target type, Null when it is none
ParsedForm(c, target_type) ==
    CASE target_type = "numeric" -> ToNumeric(c)
      [] target_type = "datetime" -> ToDatetime(c)
      [] target_type = "boolean" ->
            IF lower(c.str) \in BooleanWords
            THEN Bool(lower(c.str) = << "t", "r", "u", "e" >>) ELSE Null
      [] OTHER -> c

\* C19: after _convert_to_target_type with one of the target types numeric,
\* datetime, boolean and text, every string of the column that cannot be
\* parsed as the target type is a missing value, and every other string is
\* its parsed form.
C19_UnparsableBecomesMissing ==
    (converted # EmptyDict /\ converted.target_type # "categorical") =>
        \A i \in 1..Len(given_column.values) :
            given_column.values[i].kind = "str"
                => converted.column.values[i]
                     = ParsedForm(given_column.values[i], converted.target_type)

(***************************************************************************)
(* smart_schema_analyzer.py : SmartSchemaAnalyzer                          *)
(***************************************************************************)
SampleSize == 10
SampleValues == 5
AllowedValuesLimit == 20

S_COLUMN_NAME == << "C", "O", "L", "U", "M", "N", "_", "N", "A", "M", "E" >>
S_column_name == lower(S_COLUMN_NAME)
S_DATA_TYPE == << "D", "A", "T", "A", "_", "T", "Y", "P", "E" >>
S_data_type == lower(S_DATA_TYPE)
S_TABLE_NAME == << "T", "A", "B", "L", "E", "_", "N", "A", "M", "E" >>
S_table_name == lower(S_TABLE_NAME)
S_IS_NULLABLE == << "I", "S", "_", "N", "U", "L", "L", "A", "B", "L", "E" >>
S_is_nullable == lower(S_IS_NULLABLE)
S_YES == << "Y", "E", "S" >>
S_NO == << "N", "O" >>

\* name in schema_df.columns
HasColumn(schema_df, name) == \E k \in 1..Len(schema_df) : schema_df[k].name = name

\* schema_df[name]
ColumnNamed(schema_df, name) ==
    schema_df[CHOOSE k \in 1..Len(schema_df) : schema_df[k].name = name]

\* len(schema_df)
RowCount(schema_df) == IF schema_df = <<>> THEN 0 ELSE Len(schema_df[1].values)

\* lines 105-114
_is_schema_definition(schema_df) ==
    \/ HasColumn(schema_df, S_COLUMN_NAME) \/ HasColumn(schema_df, S_column_name)
    \/ HasColumn(schema_df, S_DATA_TYPE) \/ HasColumn(schema_df, S_data_type)
    \/ HasColumn(schema_df, S_TABLE_NAME) \/ HasColumn(schema_df, S_table_name)

\* any(word in db_type for word in words)
ContainsAny(db_type, words) == \E word \in words : Contains(db_type, word)

\* lines 251-266
_map_database_type_to_standard(db_type) ==
    LET t == lower(db_type)
    IN IF ContainsAny(t, { <<"i", "n", "t">> }) THEN "numeric"
       ELSE IF ContainsAny(t, { <<"f", "l", "o", "a", "t">>, <<"d", "o", "u", "b", "l", "e">>,
                                <<"d", "e", "c", "i", "m", "a", "l">>,
                                <<"n", "u", "m", "e", "r", "i", "c">> }) THEN "numeric"
       ELSE IF ContainsAny(t, { <<"c", "h", "a", "r">>, <<"t", "e", "x", "t">> }) THEN "text"
       ELSE IF ContainsAny(t, { S_date, S_time }) THEN "datetime"
       ELSE IF ContainsAny(t, { <<"b", "o", "o", "l">>, <<"b", "i", "t">> }) THEN "boolean"
       ELSE "text"

\* str.upper()
upper(s) == [i \in 1..Len(s) |-> UpperChar(s[i])]

\* lines 180-249: row r of the sheet read as one column definition
_analyze_schema_row(schema_df, r) ==
    LET RowValue(name) == StrOf(ColumnNamed(schema_df, name).values[r],
                             ColumnNamed(schema_df, name).dtype)
        name == IF HasColumn(schema_df, S_COLUMN_NAME) THEN RowValue(S_COLUMN_NAME)
                ELSE IF HasColumn(schema_df, S_column_name) THEN RowValue(S_column_name)
                ELSE << "C", "o", "l", "u", "m", "n", "_" >> \o FormatInt(r)
        data_type ==
            IF HasColumn(schema_df, S_DATA_TYPE)
            THEN _map_database_type_to_standard(lower(RowValue(S_DATA_TYPE)))
            ELSE IF HasColumn(schema_df, S_data_type)
            THEN _map_database_type_to_standard(lower(RowValue(S_data_type)))
            ELSE "unknown"
        nullable ==
            IF HasColumn(schema_df, S_IS_NULLABLE) THEN upper(RowValue(S_IS_NULLABLE)) = S_YES
            ELSE IF HasColumn(schema_df, S_is_nullable) THEN upper(RowValue(S_is_nullable)) = S_YES
            ELSE TRUE
    IN [ name |-> name, data_type |-> data_type, nullable |-> nullable,
         unique |-> FALSE, primary_key |-> FALSE, foreign_key |-> FALSE,
         constraints |-> [required |-> ~nullable, allowed_values |-> <<>>],
         sample_values |-> << Str(name) >>,
         statistics |-> [ total_values |-> 1, non_null_values |-> 1, null_values |-> 0,
                          unique_values |-> 1, duplicate_values |-> 0 ],
         quality_issues |-> <<>> ]

\* lines 268-284; the sheets of the model have no CHARACTER_MAXIMUM_LENGTH
\* header, so lines 230-233 set no max_length
_extract_business_rules_from_schema(schema_df) ==
    IF HasColumn(schema_df, S_IS_NULLABLE)
    THEN LET is_nullable == ColumnNamed(schema_df, S_IS_NULLABLE).values
             non_nullable == { r \in 1..Len(is_nullable) : is_nullable[r] = Str(S_NO) }
         IN IF non_nullable # {}
            THEN << [ rule_id |-> "BR001", rule_name |-> "Required Fields",
                      columns |-> IF HasColumn(schema_df, S_COLUMN_NAME)
                                  THEN TakeRows(ColumnNamed(schema_df, S_COLUMN_NAME).values,
                                                non_nullable, 1)
                                  ELSE <<>>,
                      severity |-> "high" ] >>
            ELSE <<>>
    ELSE <<>>

\* s.replace(old, '')
RECURSIVE Remove(_, _)
Remove(s, old) ==
    IF Len(s) < Len(old) THEN s
    ELSE IF SubSeq(s, 1, Len(old)) = old
         THEN Remove(SubSeq(s, Len(old) + 1, Len(s)), old)
         ELSE << Head(s) >> \o Remove(Tail(s), old)

\* lines 286-301
_analyze_relationships_from_schema(schema_df) ==
    IF HasColumn(schema_df, S_COLUMN_NAME)
    THEN LET column == ColumnNamed(schema_df, S_COLUMN_NAME)
             names == [r \in 1..Len(column.values) |-> StrOf(column.values[r], column.dtype)]
             referring == SelectSeq(names, LAMBDA n : Contains(lower(n), S_id) /\ lower(n) # S_id)
         IN [ i \in 1..Len(referring) |->
                [ type |-> "foreign_key", source_column |-> referring[i],
                  target_table |-> Remove(Remove(referring[i], S__id), << "I", "D" >>) ] ]
    ELSE <<>>

\* lines 554-587, with _is_consistent_naming of lines 589-594, the same
\* pattern as the problem analyzer's; the mean of line 585 is taken over all the values of
\* metrics, the overall_score of line 561 among them
_calculate_schema_quality_metrics(columns) ==
    IF columns = <<>>
    THEN [ completeness |-> Quot(0, 1), consistency |-> Quot(0, 1), uniqueness |-> Quot(0, 1),
           validity |-> Quot(0, 1), overall_score |-> Quot(0, 1) ]
    ELSE LET Share(S) == Quot(Cardinality(S), Len(columns))
             completeness ==
                 Share({ i \in 1..Len(columns) : columns[i].data_type # "unknown" })
             consistency ==
                 Share({ i \in 1..Len(columns) : _is_consistent_naming(columns[i].name) })
             uniqueness ==
                 Share({ i \in 1..Len(columns) : columns[i].unique \/ columns[i].primary_key })
             validity ==
                 Share({ i \in 1..Len(columns) : columns[i].constraints # EmptyDict })
         IN [ completeness |-> completeness, consistency |-> consistency,
              uniqueness |-> uniqueness, validity |-> validity,
              overall_score |->
                  mean(<< completeness, consistency, uniqueness, validity, Quot(0, 1) >>) ]

\* the data_types and constraints dicts of an analysis, keyed by column name
RECURSIVE KeyedBy(_, _)
KeyedBy(columns, field) ==
    IF columns = <<>> THEN <<>>
    ELSE SetItem(KeyedBy(SubSeq(columns, 1, Len(columns) - 1), field),
                 columns[Len(columns)].name, columns[Len(columns)][field])

\* the dict analysis of lines 118-128 and 150-160, filled in
Analysis(total_rows, total_columns, columns, business_rules, relationships) ==
    [ total_rows |-> total_rows, total_columns |-> total_columns,
      columns |-> columns, business_rules |-> business_rules,
      relationships |-> relationships,
      data_types |-> KeyedBy(columns, "data_type"),
      constraints |-> KeyedBy(columns, "constraints"),
      quality_metrics |-> _calculate_schema_quality_metrics(columns) ]

\* lines 116-146
_analyze_schema_definition_format(schema_df) ==
    Analysis(RowCount(schema_df), RowCount(schema_df),
             [r \in 1..RowCount(schema_df) |-> _analyze_schema_row(schema_df, r)],
             _extract_business_rules_from_schema(schema_df),
             _analyze_relationships_from_schema(schema_df))

\* pd.to_numeric(data) does not raise: every value is a number or a string
\* that spells one
AllNumeric(data) ==
    \A i \in 1..Len(data) : data[i].kind \in {"num", "bool"} \/ ToNumeric(data[i]) # Null

\* pd.to_datetime(data) does not raise on a column of strings: every one is a
\* date
AllDates(data) ==
    \A i \in 1..Len(data) : data[i].kind = "date" \/ ToDatetime(data[i]) # Null

BooleanSpellings ==
    { << "t", "r", "u", "e" >>, << "f", "a", "l", "s", "e" >>, << "1" >>, << "0" >>,
      << "y", "e", "s" >>, << "n", "o" >> }

UpperSet == { UpperLetters[i] : i \in 1..26 }
AlphaNumeric == LowerSet \cup UpperSet \cup Digits

AllIn(s, chars) == \A i \in 1..Len(s) : s[i] \in chars

\* re.match(r'^[a-zA-Z0-9._%+-]+@[a-zA-Z0-9.-]+\.[a-zA-Z]{2,}$', val)
MatchesEmail(val) ==
    \E at \in 2..Len(val) :
        /\ val[at] = "@"
        /\ AllIn(SubSeq(val, 1, at - 1), AlphaNumeric \cup {".", "_", "%", "+", "-"})
        /\ \E dot \in (at + 2)..(Len(val) - 2) :
              /\ val[dot] = "."
              /\ AllIn(SubSeq(val, at + 1, dot - 1), AlphaNumeric \cup {".", "-"})
              /\ AllIn(SubSeq(val, dot + 1, Len(val)), LowerSet \cup UpperSet)

\* re.match(r'^[\+]?[1-9][\d]{0,15}$', re.sub(r'[^\d+]', '', val))
MatchesPhone(val) ==
    LET kept == SelectSeq(val, LAMBDA c : c \in Digits \cup {"+"})
        digits == IF kept # <<>> /\ Head(kept) = "+" THEN Tail(kept) ELSE kept
    IN /\ Len(digits) \in 1..16
       /\ digits[1] \in Digits \ {"0"}
       /\ AllIn(digits, Digits)

\* re.match(r'^[A-Za-z0-9_-]+$', val)
MatchesIdentifier(val) == val # <<>> /\ AllIn(val, AlphaNumeric \cup {"_", "-"})

\* a sample that is the whole column
_WholeColumn(data, n) == data

\* data.head(n)
head(data, n) == SubSeq(data, 1, IF Len(data) < n THEN Len(data) ELSE n)

\* the tests of lines 361-405 with the boolean test tried first
_determine_data_type_BooleanFirst(data, dtype) ==
    LET sample_values == [i \in 1..Len(head(data, SampleSize)) |-> StrOf(data[i], dtype)]
        AnySample(Matches(_)) == \E i \in 1..Len(sample_values) : Matches(sample_values[i])
    IN IF Len(data) = 0 THEN "empty"
       ELSE IF \/ dtype = "bool"
               \/ \A i \in 1..Len(data) : lower(StrOf(data[i], dtype)) \in BooleanSpellings
            THEN "boolean"
       ELSE IF AllNumeric(data) THEN "numeric"
       ELSE IF AllDates(data) THEN "datetime"
       ELSE IF 2 * nunique(data) < Len(data) THEN "categorical"
       ELSE IF AnySample(MatchesEmail) THEN "email"
       ELSE IF AnySample(MatchesPhone) THEN "phone"
       ELSE IF AnySample(MatchesIdentifier) THEN "identifier"
       ELSE "text"

\* lines 361-405, on the non-null values of a column of the dtype
_determine_data_type(data, dtype) ==
    LET sample_values == [i \in 1..Len(head(data, SampleSize)) |-> StrOf(data[i], dtype)]
        AnySample(Matches(_)) == \E i \in 1..Len(sample_values) : Matches(sample_values[i])
    IN IF Len(data) = 0 THEN "empty"
       ELSE IF AllNumeric(data) THEN "numeric"
       ELSE IF AllDates(data) THEN "datetime"
       ELSE IF \/ dtype = "bool"
               \/ \A i \in 1..Len(data) : lower(StrOf(data[i], dtype)) \in BooleanSpellings
            THEN "boolean"
       ELSE IF 2 * nunique(data) < Len(data) THEN "categorical"
       ELSE IF AnySample(MatchesEmail) THEN "email"
       ELSE IF AnySample(MatchesPhone) THEN "phone"
       ELSE IF AnySample(MatchesIdentifier) THEN "identifier"
       ELSE "text"

\* len(str(x)) of the shortest and the longest value
MinLength(data, dtype) ==
    CHOOSE n \in { Len(StrOf(data[i], dtype)) : i \in 1..Len(data) } :
        \A i \in 1..Len(data) : n <= Len(StrOf(data[i], dtype))
MaxLength(data, dtype) ==
    CHOOSE n \in { Len(StrOf(data[i], dtype)) : i \in 1..Len(data) } :
        \A i \in 1..Len(data) : n >= Len(StrOf(data[i], dtype))

\* Series.min() and Series.max() of finite numbers
MinValue(data) ==
    (CHOOSE c \in { data[i] : i \in 1..Len(data) } :
        \A i \in 1..Len(data) : QLeq(c.num, data[i].num)).num
MaxValue(data) ==
    (CHOOSE c \in { data[i] : i \in 1..Len(data) } :
        \A i \in 1..Len(data) : QLeq(data[i].num, c.num)).num

\* Series.unique(): the values in order of first appearance
RECURSIVE unique(_)
unique(data) ==
    IF data = <<>> THEN <<>>
    ELSE LET seen == unique(SubSeq(data, 1, Len(data) - 1))
         IN IF InList(data[Len(data)], seen) THEN seen
            ELSE Append(seen, data[Len(data)])

\* d with d[key] = val when the guard holds; a key whose value is None is
\* left out of the dict
PutIf(guard, d, key, val) == IF guard THEN Put(d, key, val) ELSE d

\* lines 407-453
_analyze_column_constraints(column_data, column_name) ==
    LET non_null_data == dropna(column_data.values)
        dtype == column_data.dtype
        required == [ required |-> null_count(column_data.values) = 0 ]
        lengths == PutIf(dtype = "object",
                         PutIf(dtype = "object", required,
                               "min_length", MinLength(non_null_data, dtype)),
                         "max_length", MaxLength(non_null_data, dtype))
        bounds == PutIf(IsNumericDtype(dtype),
                        PutIf(IsNumericDtype(dtype), lengths,
                              "min_value", MinValue(non_null_data)),
                        "max_value", MaxValue(non_null_data))
        allowed == PutIf(nunique(non_null_data) <= AllowedValuesLimit, bounds,
                         "allowed_values", unique(non_null_data))
    IN IF non_null_data = <<>> THEN [ required |-> FALSE ]
       ELSE IF Contains(lower(column_name), S_email)
            THEN Put(Put(allowed, "pattern", "email"), "format", "email")
       ELSE IF Contains(lower(column_name), S_phone)
            THEN Put(Put(allowed, "pattern", "phone"), "format", "phone")
       ELSE IF Contains(lower(column_name), S_date)
            THEN Put(allowed, "format", "date")
       ELSE allowed

\* a primary key by its name alone
_is_primary_key_ByName(column_name, column_data) ==
    \E pattern \in { S_id, S_key } : Contains(lower(column_name), pattern)

\* lines 455-464
_is_primary_key(column_name, column_data) ==
    /\ \E pattern \in { S_id, S_key, << "p", "k" >>, << "p", "r", "i", "m", "a", "r", "y" >>,
                        << "s", "e", "r", "i", "a", "l" >> } :
          Contains(lower(column_name), pattern)
    /\ nunique(column_data.values) = Len(column_data.values)
    /\ null_count(column_data.values) = 0

\* lines 475-494; the issues are kept as their kind, the percentage the
\* message spells is left out
_identify_column_quality_issues(column_analysis) ==
    LET statistics == column_analysis.statistics
    IN (IF 10 * statistics.null_values > statistics.total_values
        THEN << "High null percentage" >> ELSE <<>>)
       \o (IF /\ Contains(lower(column_analysis.name), S_id)
              /\ 100 * statistics.unique_values < 95 * statistics.total_values
           THEN << "Low uniqueness in ID field" >> ELSE <<>>)
       \o (IF column_analysis.data_type = "unknown"
           THEN << "Unable to determine data type" >> ELSE <<>>)

\* lines 303-359, up to the call of line 357
ColumnAnalysis(column_data, column_name) ==
    LET non_null_data == dropna(column_data.values)
    IN [ name |-> column_name,
         data_type |-> _determine_data_type(non_null_data, column_data.dtype),
         nullable |-> null_count(column_data.values) > 0,
         unique |-> \/ _is_primary_key(column_name, column_data)
                    \/ nunique(column_data.values) = Len(column_data.values),
         primary_key |-> _is_primary_key(column_name, column_data),
         foreign_key |-> _is_foreign_key(column_name),
         constraints |-> _analyze_column_constraints(column_data, column_name),
         sample_values |-> head(non_null_data, SampleValues),
         statistics |->
             [ total_values |-> Len(column_data.values),
               non_null_values |-> Len(non_null_data),
               null_values |-> Len(column_data.values) - Len(non_null_data),
               unique_values |-> nunique(column_data.values),
               duplicate_values |-> Len(column_data.values) - nunique(column_data.values) ],
         quality_issues |-> <<>> ]

\* line 480 divides by total_values, two Python ints: ZeroDivisionError on a
\* column without rows
DividesByZero(column_analysis) == column_analysis.statistics.total_values = 0

\* lines 303-359
_analyze_column(column_data, column_name) ==
    LET column_analysis == ColumnAnalysis(column_data, column_name)
    IN [column_analysis EXCEPT !.quality_issues =
            _identify_column_quality_issues(column_analysis)]

\* lines 496-534: one implemented rule per column named like a rule, then
\* the three common rules
_extract_business_rules(schema_df) ==
    LET rule_columns ==
            SelectSeq(schema_df, LAMBDA column :
                \/ Contains(lower(column.name), << "r", "u", "l", "e" >>)
                \/ Contains(lower(column.name),
                            << "c", "o", "n", "s", "t", "r", "a", "i", "n", "t" >>))
    IN [ i \in 1..Len(rule_columns) |->
           [ name |-> rule_columns[i].name, type |-> "constraint", implemented |-> TRUE ] ]
       \o DefaultBusinessRules

\* lines 148-178; raised is the ZeroDivisionError of line 480, which leaves
\* the method at the first column
_analyze_regular_data_format(schema_df) ==
    LET columns == [k \in 1..Len(schema_df) |->
                       ColumnAnalysis(schema_df[k], schema_df[k].name)]
    IN IF \E k \in 1..Len(columns) : DividesByZero(columns[k])
       THEN [ raised |-> "division by zero" ]
       ELSE Analysis(RowCount(schema_df), Len(schema_df),
                     [k \in 1..Len(schema_df) |->
                         _analyze_column(schema_df[k], schema_df[k].name)],
                     _extract_business_rules(schema_df),
                     _analyze_relationships(columns))

\* lines 91-103
_analyze_schema_structure(schema_df) ==
    IF _is_schema_definition(schema_df)
    THEN _analyze_schema_definition_format(schema_df)
    ELSE _analyze_regular_data_format(schema_df)

\* lines 596-621; a recommendation that counts columns is kept with its
\* count
_generate_schema_recommendations(schema_analysis, ndmo_compliance) ==
    LET columns == schema_analysis.columns
        unknown_types == Cardinality({ i \in 1..Len(columns) : columns[i].data_type = "unknown" })
        columns_without_constraints ==
            Cardinality({ i \in 1..Len(columns) : columns[i].constraints = EmptyDict })
    IN (IF ndmo_compliance.status # "compliant" THEN ndmo_compliance.recommendations ELSE <<>>)
       \o (IF \E i \in 1..Len(columns) : columns[i].primary_key THEN <<>>
           ELSE << [ recommendation |-> "Add a primary key column", count |-> 0 ] >>)
       \o (IF unknown_types > 0
           THEN << [ recommendation |-> "Define data types", count |-> unknown_types ] >>
           ELSE <<>>)
       \o (IF columns_without_constraints > 0
           THEN << [ recommendation |-> "Add constraints",
                     count |-> columns_without_constraints ] >>
           ELSE <<>>)

\* lines 33-79, from the sheet pd.read_excel loaded: what the call returns
\* and what it leaves in self.analysis_results
AnalysisResult(schema_df) ==
    LET schema_analysis == _analyze_schema_structure(schema_df)
    IN IF "raised" \in DOMAIN schema_analysis
       THEN [ error |-> schema_analysis.raised ]
       ELSE LET ndmo_compliance == validate_schema_compliance(schema_analysis)
            IN [ schema_analysis |-> schema_analysis,
                 ndmo_compliance |-> ndmo_compliance,
                 recommendations |->
                     _generate_schema_recommendations(schema_analysis, ndmo_compliance) ]

\* analyze_schema_file, lines 33-79
AnalyzeSchemaFile ==
    /\ \E returned \in { AnalysisResult(schema_sheet) } :
          /\ analysis_returned' = returned
          /\ analysis_results' =
                 IF "error" \in DOMAIN returned THEN analysis_results ELSE returned
    /\ UNCHANGED schema_sheet
    /\ UNCHANGED <<scorer_vars, schema_vars, processor_vars, coercion_vars>>

(***************************************************************************)
(* The sheets given to analyze_schema_file                                 *)
(***************************************************************************)
MaxDefinitions == 1

S_a_b_co == << "a", "@", "b", ".", "c", "o" >>
S_not_an_email == << "n", "o", "t", "-", "a", "n", "-", "e", "m", "a", "i", "l" >>
S_tel_12 == << "t", "e", "l", " ", "1", "2" >>
S_x_y == << "x", " ", "y" >>
S_customer_id == << "c", "u", "s", "t", "o", "m", "e", "r", "_", "i", "d" >>
S_Column_Name == << "C", "o", "l", "u", "m", "n", "_", "N", "a", "m", "e" >>
S_Data_Type == << "D", "a", "t", "a", "_", "T", "y", "p", "e" >>
S_int == << "i", "n", "t" >>
S_varchar == << "v", "a", "r", "c", "h", "a", "r" >>

\* the cells of a sampled column of text and of a sampled column of numbers
SampledText ==
    { Str(S_a_b_co), Str(S_not_an_email), Str(S_x_y), Str(S_2020_01_02), Null }
SampledNumbers == { Whole(1), Whole(2), Null }

\* a sheet of one sampled column; a column without rows is read as object
TextSheets ==
    { << Series(name, "object", vs) >> :
          name \in {S_email, S_id}, vs \in CellLists(SampledText, MaxRows) }

NumberSheets ==
    { << Series(name, NumberDtype(vs), vs) >> :
          name \in {S_id, S_amount, upper(S_id)},
          vs \in (CellLists(SampledNumbers, MaxRows) \ {<<>>})
                     \cup { << Whole(1), Whole(2), Whole(2), Whole(3) >> } }

\* two sampled columns of one row, and none
WideSheets ==
    { << Series(S_customer_id, NumberDtype(<< n >>), << n >>),
         Series(<< "r", "u", "l", "e" >>, "object", << t >>) >> :
          n \in SampledNumbers, t \in SampledText \ {Null} }
    \cup { <<>> }

\* nine values that are no email, phone number or identifier, all different
Fillers == [ i \in 1..(SampleSize - 1) |-> Str(<< LowerLetters[i], " ", "#" >>) ]

\* a column longer than the sample of line 389: the fillers, one more value
\* at the start or at the end of the sample, and one value after the sample
LongSheets ==
    { << Series(S_email, "object",
                (IF first THEN << slot >> \o Fillers ELSE Fillers \o << slot >>)
                    \o << after >>) >> :
          first \in BOOLEAN,
          slot \in { Str(S_a_b_co), Str(S_tel_12), Str(S_not_an_email), Str(S_x_y) },
          after \in { Str(S_a_b_co), Str(S_tel_12), Str(S_not_an_email), Str(S_x_y) } }

\* the rows of a sheet that lists column definitions
DefinitionRow == [ name : {S_id, S_customer_id}, type : {S_int, S_varchar},
                   nullable : {S_YES, S_NO} ]

RECURSIVE DefinitionRows(_)
DefinitionRows(n) ==
    IF n = 0 THEN {<<>>}
    ELSE DefinitionRows(n - 1)
         \cup { Append(rows, row) : rows \in DefinitionRows(n - 1), row \in DefinitionRow }

\* a sheet with a header for the names, maybe one for the types and maybe
\* IS_NULLABLE, the headers spelled in upper, lower or mixed case
DefinitionSheets ==
    { << Series(name_header, "object", [r \in 1..Len(rows) |-> Str(rows[r].name)]) >>
      \o (IF type_header = <<>> THEN <<>>
          ELSE << Series(type_header, "object",
                         [r \in 1..Len(rows) |-> Str(rows[r].type)]) >>)
      \o (IF with_nullable
          THEN << Series(S_IS_NULLABLE, "object",
                         [r \in 1..Len(rows) |-> Str(rows[r].nullable)]) >>
          ELSE <<>>) :
          name_header \in {S_COLUMN_NAME, S_column_name, S_Column_Name},
          type_header \in {S_DATA_TYPE, S_data_type, S_Data_Type, <<>>},
          with_nullable \in BOOLEAN,
          rows \in DefinitionRows(MaxDefinitions) }

SchemaSheets == TextSheets \cup NumberSheets \cup WideSheets \cup LongSheets \cup DefinitionSheets

InitAnalyzer ==
    /\ ScorerIdle /\ SchemaIdle /\ ProcessorIdle /\ CoercionIdle
    /\ schema_sheet \in SchemaSheets
    /\ analysis_results = EmptyDict
    /\ analysis_returned = EmptyDict

NextAnalyzer == AnalyzeSchemaFile

SpecAnalyzer == InitAnalyzer /\ [][NextAnalyzer]_vars

(***************************************************************************)
(* Properties of the schema analyzer                                       *)
(***************************************************************************)
AnalysisReturned == analysis_returned # EmptyDict

ReturnedModel == AnalysisReturned /\ "schema_analysis" \in DOMAIN analysis_returned

ReturnedColumns == analysis_returned.schema_analysis.columns

\* C15: the statistics of every column of a returned analysis satisfy
\* null_values = total_values - non_null_values and
\* duplicate_values = non_null_values - unique_values.
C15_StatisticsAddUp ==
    ReturnedModel =>
        \A k \in 1..Len(ReturnedColumns) :
            LET statistics == ReturnedColumns[k].statistics
            IN /\ statistics.null_values
                    = statistics.total_values - statistics.non_null_values
               /\ statistics.duplicate_values
                    = statistics.non_null_values - statistics.unique_values

\* the sheet was read as sampled data: one column of the analysis per column
\* of the sheet, under the same name
ReadAsSampled ==
    /\ ReturnedModel
    /\ Len(ReturnedColumns) = Len(schema_sheet)
    /\ \A k \in 1..Len(schema_sheet) : ReturnedColumns[k].name = schema_sheet[k].name

FormatTypes == { "email", "phone", "identifier", "text" }

\* the first ten non-null values of a column, as strings
SampleOf(column_data) ==
    LET non_null == dropna(column_data.values)
    IN [ i \in 1..(IF Len(non_null) < SampleSize THEN Len(non_null) ELSE SampleSize) |->
           StrOf(non_null[i], column_data.dtype) ]

\* C16: a sampled column whose inferred type is none of numeric, datetime,
\* boolean and categorical is an email column exactly when one of its first
\* 10 non-null values matches the email pattern, and every column with the
\* same first 10 non-null values that also reaches the format checks gets
\* the same type, whatever its later values.
C16_EmailFromAnySample ==
    (ReadAsSampled /\ ~_is_schema_definition(schema_sheet)) =>
        \A k \in 1..Len(schema_sheet) :
            ReturnedColumns[k].data_type \in FormatTypes =>
                /\ ReturnedColumns[k].data_type = "email"
                     <=> \E i \in 1..Len(SampleOf(schema_sheet[k])) :
                            MatchesEmail(SampleOf(schema_sheet[k])[i])
                /\ \A other \in LongSheets :
                      ( /\ SampleOf(other[1]) = SampleOf(schema_sheet[k])
                        /\ _determine_data_type(dropna(other[1].values), other[1].dtype)
                              \in FormatTypes )
                          => _determine_data_type(dropna(other[1].values), other[1].dtype)
                               = ReturnedColumns[k].data_type

\* an email column of more than ten values of which only the tenth matches
\* the pattern, and the one after the sample does not
C16_Witness ==
    /\ ReadAsSampled
    /\ Len(schema_sheet) = 1
    /\ Len(dropna(schema_sheet[1].values)) > SampleSize
    /\ ReturnedColumns[1].data_type = "email"
    /\ { i \in 1..Len(schema_sheet[1].values) :
            MatchesEmail(schema_sheet[1].values[i].str) } = { SampleSize }

\* C17: analyze_schema_file on a sheet without columns or without rows
\* returns an error and leaves no schema analysis in analysis_results.
C17_EmptySheetIsAnError ==
    (AnalysisReturned /\ (schema_sheet = <<>> \/ RowCount(schema_sheet) = 0)) =>
        /\ "error" \in DOMAIN analysis_returned
        /\ "schema_analysis" \notin DOMAIN analysis_returned
        /\ "schema_analysis" \notin DOMAIN analysis_results

\* C18: the overall_score of an analysis with at least one column is the
\* mean of its completeness, consistency, uniqueness and validity.
C18_OverallIsMeanOfFour ==
    (ReturnedModel /\ ReturnedColumns # <<>>) =>
        LET metrics == analysis_returned.schema_analysis.quality_metrics
        IN QEq(QTimesInt(metrics.overall_score, 4),
               QAdd(QAdd(metrics.completeness, metrics.consistency),
                    QAdd(metrics.uniqueness, metrics.validity)))

\* the headers that equal the word when case is ignored
HeadersLike(word) ==
    { k \in 1..Len(schema_sheet) : upper(schema_sheet[k].name) = word }

\* C20: a sheet with a header that equals COLUMN_NAME, DATA_TYPE or
\* TABLE_NAME, case ignored, is read as column definitions, one column per
\* row, named and typed by the cells under those headers; every other sheet
\* with rows is read as sampled data.
C20_HeadersMatchInAnyCase ==
    (AnalysisReturned /\ RowCount(schema_sheet) > 0) =>
        IF HeadersLike(S_COLUMN_NAME) \cup HeadersLike(S_DATA_TYPE)
               \cup HeadersLike(S_TABLE_NAME) # {}
        THEN /\ ReturnedModel
             /\ Len(ReturnedColumns) = RowCount(schema_sheet)
             /\ \A r \in 1..Len(ReturnedColumns) :
                   /\ \A k \in HeadersLike(S_COLUMN_NAME) :
                         ReturnedColumns[r].name
                            = StrOf(schema_sheet[k].values[r], schema_sheet[k].dtype)
                   /\ \A k \in HeadersLike(S_DATA_TYPE) :
                         ReturnedColumns[r].data_type
                            = _map_database_type_to_standard(
                                  StrOf(schema_sheet[k].values[r], schema_sheet[k].dtype))
        ELSE ReadAsSampled

(***************************************************************************)
(* Further properties of the schema analyzer                               *)
(***************************************************************************)
SampledSheet == ReadAsSampled /\ ~_is_schema_definition(schema_sheet)

\* the non-null values of column k of the sheet, as strings
NonNullStrings(k) ==
    LET non_null == dropna(schema_sheet[k].values)
    IN [ i \in 1..Len(non_null) |-> StrOf(non_null[i], schema_sheet[k].dtype) ]

\* the tests of type inference on column k, in the order of the claim; the
\* last one always succeeds
TypeTests(k) ==
    LET non_null == dropna(schema_sheet[k].values)
        strings == NonNullStrings(k)
        sample == SampleOf(schema_sheet[k])
    IN << [ type |-> "empty", holds |-> non_null = <<>> ],
          [ type |-> "numeric", holds |-> AllNumeric(non_null) ],
          [ type |-> "datetime", holds |-> AllDates(non_null) ],
          [ type |-> "boolean",
            holds |-> \A i \in 1..Len(strings) : lower(strings[i]) \in BooleanSpellings ],
          [ type |-> "categorical", holds |-> 2 * nunique(non_null) < Len(non_null) ],
          [ type |-> "email", holds |-> \E i \in 1..Len(sample) : MatchesEmail(sample[i]) ],
          [ type |-> "phone", holds |-> \E i \in 1..Len(sample) : MatchesPhone(sample[i]) ],
          [ type |-> "identifier",
            holds |-> \E i \in 1..Len(sample) : MatchesIdentifier(sample[i]) ],
          [ type |-> "text", holds |-> TRUE ] >>

\* C21: the type inferred for a sampled column is that of the first test
\* that succeeds in the order empty, numeric, datetime, boolean,
\* categorical, email, phone, identifier, text; so a column of ones and
\* zeros is numeric and a column of repeated e-mail addresses categorical.
C21_FirstTestThatSucceeds ==
    SampledSheet =>
        \A k \in 1..Len(schema_sheet) :
            LET tests == TypeTests(k)
                first == CHOOSE n \in 1..Len(tests) :
                            tests[n].holds /\ \A m \in 1..(n - 1) : ~tests[m].holds
            IN ReturnedColumns[k].data_type = tests[first].type

\* a column of the one e-mail address, three times, found categorical
C21_Witness ==
    /\ SampledSheet
    /\ \E k \in 1..Len(schema_sheet) :
          /\ Len(NonNullStrings(k)) > 2
          /\ \A i \in 1..Len(NonNullStrings(k)) : MatchesEmail(NonNullStrings(k)[i])
          /\ ReturnedColumns[k].data_type = "categorical"

KeyWords ==
    { << "i", "d" >>, << "k", "e", "y" >>, << "p", "k" >>,
      << "p", "r", "i", "m", "a", "r", "y" >>, << "s", "e", "r", "i", "a", "l" >> }

\* column k of the sheet is named like a key and its values are all present
\* and all different
KeyCandidate(k) ==
    LET values == schema_sheet[k].values
    IN /\ \E word \in KeyWords : Contains(lower(schema_sheet[k].name), word)
       /\ \A i \in 1..Len(values) : values[i] # Null
       /\ \A i, j \in 1..Len(values) : i # j => values[i] # values[j]

\* C22: in the analysis of a sampled sheet a column is flagged primary_key
\* exactly when its name contains id, key, pk, primary or serial in any
\* case, its values are all different and none is missing; a primary_key
\* column is unique, not nullable and required.
C22_PrimaryKeyFlag ==
    SampledSheet =>
        \A k \in 1..Len(schema_sheet) :
            /\ ReturnedColumns[k].primary_key <=> KeyCandidate(k)
            /\ ReturnedColumns[k].primary_key =>
                  /\ ReturnedColumns[k].unique
                  /\ ~ReturnedColumns[k].nullable
                  /\ Truthy(ReturnedColumns[k].constraints, "required")

\* a column ID, in upper case, of two different numbers, flagged primary_key
C22_Witness ==
    /\ SampledSheet
    /\ \E k \in 1..Len(schema_sheet) :
          /\ schema_sheet[k].name = upper(S_id)
          /\ Len(schema_sheet[k].values) > 1
          /\ ReturnedColumns[k].primary_key

\* the column a relationship record is about
RelatedColumn(relationship) ==
    IF "child_column" \in DOMAIN relationship
    THEN relationship.child_column ELSE relationship.source_column

\* C23: the relationships of a returned analysis, of either shape, are the
\* foreign_key records of the columns whose foreign_key flag is true, one
\* each, and of no other column.
C23_OneRelationshipPerForeignKey ==
    AnalysisReturned /\ "schema_analysis" \in DOMAIN analysis_returned =>
        LET relationships == analysis_returned.schema_analysis.relationships
            flagged == SelectSeq(ReturnedColumns, LAMBDA column : column.foreign_key)
        IN /\ \A i \in 1..Len(relationships) : relationships[i].type = "foreign_key"
           /\ [ i \in 1..Len(relationships) |-> RelatedColumn(relationships[i]) ]
                = [ i \in 1..Len(flagged) |-> flagged[i].name ]

(***************************************************************************)
(* Further properties of the data processor                                *)
(***************************************************************************)
\* C24: every column whose values the improvement pass of a call changed is
\* named by an entry that call appended to improvement_log.
C24_EveryChangeIsLogged ==
    Processed =>
        \A k \in 1..Len(improved_data) :
            improved_data[k].values # LastCall.processed[k].values
                => \E i \in 1..Len(LastCall.appended) :
                      LastCall.appended[i].column = improved_data[k].name

(***************************************************************************)
(* Further properties of the transformer and the problem detector          *)
(***************************************************************************)
MandatedNames ==
    { S_created_date, S_modified_date, S_created_by, S_modified_by,
      S_data_classification, S_access_level, S_source_system, S_extraction_date,
      S_data_owner, S_data_steward }

\* C25: the output of make_schema_ndmo_compliant has a primary_key column
\* and, for each of the ten mandated names, a column of exactly that name.
C25_MandatedColumnsPresent ==
    Transformed =>
        /\ \E i \in 1..Len(SchemaInfo.columns) : Truthy(SchemaInfo.columns[i], "primary_key")
        /\ \A name \in MandatedNames :
              \E i \in 1..Len(SchemaInfo.columns) : SchemaInfo.columns[i].name = name

\* the index in the output of make_schema_ndmo_compliant of column i of its
\* input: one further when "id" was inserted in front
OutputIndex(i) ==
    IF \E j \in 1..Len(before.columns) : Truthy(before.columns[j], "primary_key")
    THEN i ELSE i + 1

\* C26: make_schema_ndmo_compliant leaves no column of its input with a
\* looser constraint: required stays true, nullable stays false, max_length
\* and max_value do not grow and min_value does not shrink.
C26_ConstraintsOnlyTightened ==
    Transformed =>
        \A i \in 1..Len(before.columns) :
            LET old == before.columns[i]
                new == SchemaInfo.columns[OutputIndex(i)]
                was == Get(old, "constraints", EmptyDict)
                is == Get(new, "constraints", EmptyDict)
            IN /\ new.name = old.name
               /\ Truthy(was, "required") => Truthy(is, "required")
               /\ Get(old, "nullable", TRUE) = FALSE => Get(new, "nullable", TRUE) = FALSE
               /\ \A key \in {"max_length", "max_value"} :
                     key \in DOMAIN was => key \in DOMAIN is /\ is[key] <= was[key]
               /\ "min_value" \in DOMAIN was
                     => "min_value" \in DOMAIN is /\ is.min_value >= was.min_value

\* the column dicts of the schema file of the call
SchemaColumns ==
    IF "schema_analysis" \in DOMAIN data_file.schema
    THEN data_file.schema.schema_analysis.columns ELSE <<>>

\* C27: a text or numeric column whose constraints say required comes out
\* of the constraint step without a missing value, whatever the other
\* constraints of the column are.
C27_RequiredLeavesNoMissing ==
    Processed =>
        \A k \in 1..Len(LastCall.processed) :
            \A j \in 1..Len(SchemaColumns) :
                LET column_info == SchemaColumns[j]
                IN (/\ column_info.name = LastCall.processed[k].name
                    /\ column_info.data_type \in {"text", "numeric"}
                    /\ ~column_info.primary_key
                    /\ "required" \in DOMAIN column_info.constraints
                    /\ column_info.constraints.required = TRUE)
                   => \A i \in 1..Len(LastCall.processed[k].values) :
                         LastCall.processed[k].values[i].kind # "null"

\* analyze_schema_problems has run on what make_schema_ndmo_compliant made
AnalyzedTransformed == Transformed /\ Analyzed /\ analyzed = SchemaInfo

AddressedProblems == {"DG001", "DG003", "DS002", "DS004", "DA002"}

\* C28: analyze_schema_problems on the output of make_schema_ndmo_compliant
\* reports none of DG001, DG003, DS002, DS004 and DA002.
C28_AddressedProblemsNotReported ==
    AnalyzedTransformed =>
        \A i \in 1..Len(ReportedIds) : ReportedIds[i] \notin AddressedProblems

\* the analysis of a transformed schema whose input had no primary key and
\* no column of the mandated names
C28_Witness ==
    /\ AnalyzedTransformed
    /\ runs = 1
    /\ \A i \in 1..Len(before.columns) :
          /\ ~Truthy(before.columns[i], "primary_key")
          /\ lower(before.columns[i].name) \notin MandatedNames
    /\ ReportedIds # <<>>

\* the names of the columns _add_data_lineage_fields adds
LineageNames == { S_source_system, S_extraction_date }

HasColumnNamed(schema_info, name) ==
    \E i \in 1..Len(schema_info.columns) : schema_info.columns[i].name = name

\* C29: analyze_schema_problems does not report DG002 for a schema that has
\* the columns source_system and extraction_date; it reports DG002 only for
\* a schema without a column of a lineage name.
C29_LineageColumnsSilenceDG002 ==
    Analyzed =>
        /\ (\A name \in LineageNames : HasColumnNamed(analyzed, name))
              => \A i \in 1..Len(ReportedIds) : ReportedIds[i] # "DG002"
        /\ (\E i \in 1..Len(ReportedIds) : ReportedIds[i] = "DG002")
              => \A name \in LineageNames : ~HasColumnNamed(analyzed, name)

\* the four measurements of validate_schema_compliance, in hundredths
MeasurementsOf(schema_data) ==
    [ DG001 |-> IF _check_primary_key(schema_data) THEN QInt(100) ELSE QInt(0),
      DQ001 |-> _check_completeness_requirements(schema_data),
      DQ005 |-> _check_data_validity(schema_data),
      BR001 |-> _check_business_rules(schema_data) ]

\* C30: validate_schema_compliance gives the output of
\* make_schema_ndmo_compliant an overall_score that is not below the one of
\* its input, and none of DG001, DQ001, DQ005 and BR001 measures lower.
C30_TransformationNeverLowersCompliance ==
    Transformed =>
        /\ QLeq(validate_schema_compliance(before).overall_score,
                validate_schema_compliance(SchemaInfo).overall_score)
        /\ \A id \in {"DG001", "DQ001", "DQ005", "BR001"} :
              QLeq(MeasurementsOf(before)[id], MeasurementsOf(SchemaInfo)[id])

====
